---- MODULE Spec2Model ----
(***************************************************************************)
(* DG4202 waveform generator control: the device facade (DG4202), the      *)
(* simulated instrument (DG4202StateMachine), the mock transport           *)
(* (DG4202MockInterface), the command API server (DG4202APIServer), the     *)
(* device detector (DG4202Detector) and the liveness tracker of the        *)
(* frontend (StateManager, DG4202Manager).                                 *)
(*                                                                         *)
(* Command strings are TLA+ strings; None is the value NoneVal, which no   *)
(* command or stored value can equal.                                      *)
(***************************************************************************)
EXTENDS Integers, Sequences, FiniteSets, TLC

VARIABLES
    state,      \* DG4202StateMachine.state: dict key -> value
    killed,     \* DG4202MockInterface.killed
    op,         \* the last operation called: [name, channel, arg]
    ret,        \* what the last operation returned
    writes,     \* the commands the last operation passed to interface.write
    reads,      \* the queries the last operation passed to interface.read
    raised,     \* the last operation ended in an exception
    liveState,  \* the state store as it was when the mock was last not killed
    absorbed,   \* a write was issued while killed, in the latest killed period
    repeated,   \* the last operation repeated the call before it
    nops,       \* number of operations called so far
    resources,  \* what rm.list_resources() enumerates, with how each behaves
    hardware_mock, \* args_dict['hardware_mock'] of the running process
    file,       \* the content of StateManager.json_file_path
    now,        \* time.time(), in whole seconds
    downAt,     \* when the device last stopped responding, <<>> if never
    deadPollAt, \* when a poll last found the device dead, <<>> if never
    server,     \* the process and the thread that run the API server
    writers,    \* the calls of DG4202MockInterface.write in progress, by thread
    polls,      \* the calls of create_dg4202 in progress, by caller
    sched       \* the Scheduler: its action list, its file, what it executed

\* the facade, the simulated instrument and the API server
device == <<state, killed, writes, reads, raised, liveState, absorbed,
            repeated, nops>>

\* the frontend process and what surrounds it
\* the calls in progress in the threads of the process
threads == <<writers, polls, sched>>

frontend == <<resources, hardware_mock, file, now, downAt, deadPollAt,
              server, threads>>

vars == <<state, killed, op, ret, writes, reads, raised, liveState, absorbed,
          repeated, nops, resources, hardware_mock, file, now, downAt,
          deadPollAt, server, writers, polls, sched>>

\* Bound on the number of calls in one run that mixes every operation of the
\* facade
MaxFrameOps == 2

\* Bound on the number of calls in one run when the next is a facade
\* operation on a channel.
MaxOps == 3

\* Bound on the number of calls in one run when the next is an API request,
\* a probe or a switch of the kill flag.
MaxCalls == 4

Channels == {1, 2}

\* Python None.
NoneVal == "<None>"

\* str(v) as an f-string formats it: None prints as the text None.
Str(v) == IF v = NoneVal THEN "None" ELSE v

\* f"{channel}" for an int channel.
Ch(channel) == ToString(channel)

-----------------------------------------------------------------------------
\* Python string primitives

CharAt(s, i) == SubSeq(s, i, i)

\* s.endswith("?")
EndsWithQ(s) == Len(s) > 0 /\ CharAt(s, Len(s)) = "?"

\* position of the first space of s at or after i, Len(s)+1 if none
RECURSIVE NextSpace(_, _)
NextSpace(s, i) ==
    IF i > Len(s) THEN Len(s) + 1
    ELSE IF CharAt(s, i) = " " THEN i
    ELSE NextSpace(s, i + 1)

\* s.split(): the maximal runs of non-space characters of s from i on
RECURSIVE SplitFrom(_, _)
SplitFrom(s, i) ==
    IF i > Len(s) THEN <<>>
    ELSE IF CharAt(s, i) = " " THEN SplitFrom(s, i + 1)
    ELSE LET j == NextSpace(s, i)
         IN  <<SubSeq(s, i, j - 1)>> \o SplitFrom(s, j + 1)

Split(s) == SplitFrom(s, 1)

\* position of the last space of s at or before i, 0 if none
RECURSIVE LastSpace(_, _)
LastSpace(s, i) ==
    IF i = 0 THEN 0
    ELSE IF CharAt(s, i) = " " THEN i
    ELSE LastSpace(s, i - 1)

\* s.split(" ")[-1]: the text after the last space
SplitSpaceLast(s) == SubSeq(s, LastSpace(s, Len(s)) + 1, Len(s))

\* position of the character ch in s at or after i, 0 if none
RECURSIVE IndexIn(_, _, _)
IndexIn(ch, s, i) ==
    IF i > Len(s) THEN 0
    ELSE IF CharAt(s, i) = ch THEN i
    ELSE IndexIn(ch, s, i + 1)

LowerChar(ch) ==
    LET i == IndexIn(ch, "ABCDEFGHIJKLMNOPQRSTUVWXYZ", 1)
    IN  IF i = 0 THEN ch ELSE CharAt("abcdefghijklmnopqrstuvwxyz", i)

\* s.lower()
RECURSIVE Lower(_)
Lower(s) ==
    IF Len(s) = 0 THEN ""
    ELSE LowerChar(CharAt(s, 1)) \o Lower(SubSeq(s, 2, Len(s)))

-----------------------------------------------------------------------------
\* DG4202StateMachine

SweepParams == <<"STAR", "STOP", "TIME", "SPAC">>
BurstParams == <<"NCYC", "MODE", "TRIG", "PHAS">>
ModParams   == <<"SOUR", "DEPT", "DEV", "RATE">>

\* the entries __init__ creates for one channel
ChannelDefaults(c) ==
    LET S == "SOURce" \o Ch(c) IN
    [k \in { S \o ":SWEEp:STATe", S \o ":BURSt:STATe", S \o ":MOD:STATe",
             "OUTPut" \o Ch(c),
             S \o ":SWEEp:STARt", S \o ":SWEEp:STOP", S \o ":SWEEp:TIME",
             S \o ":SWEEp:SPAC", S \o ":BURSt:NCYC", S \o ":BURSt:MODE",
             S \o ":BURSt:TRIG", S \o ":BURSt:PHAS", S \o ":MOD:SOUR",
             S \o ":MOD:DEPT", S \o ":MOD:DEV", S \o ":MOD:RATE" } |-> "0"]
    @@ (S \o ":MOD:TYPE" :> "none")
    @@ (S \o ":FUNCtion" :> "SIN")
    @@ (S \o ":FREQuency:FIXed" :> "375.0")
    @@ (S \o ":VOLTage:LEVel:IMMediate:AMPLitude" :> "3.3")
    @@ (S \o ":VOLTage:LEVel:IMMediate:OFFSet" :> "0.0")

StateMachine_init ==
    ("*STB?" :> "0") @@ ChannelDefaults(1) @@ ChannelDefaults(2)

OnCommands ==
    { "OUTPut1 ON", "SOURce1:SWEEp:STATe ON", "SOURce1:BURSt:STATe ON",
      "SOURce1:MOD:STATe ON", "OUTPut2 ON", "SOURce2:SWEEp:STATe ON",
      "SOURce2:BURSt:STATe ON", "SOURce2:MOD:STATe ON" }

OffCommands ==
    { "OUTPut1 OFF", "SOURce1:SWEEp:STATe OFF", "SOURce1:BURSt:STATe OFF",
      "SOURce1:MOD:STATe OFF", "OUTPut2 OFF", "SOURce1:SWEEp:STATe OFF",
      "SOURce2:BURSt:STATe OFF", "SOURce2:MOD:STATe OFF" }

\* self.state[key] = value
SetItem(st, key, value) == (key :> value) @@ st

\* write(command) when a command without a value is stored with the value ""
StateMachine_write_Lenient(st, command) ==
    LET toks == Split(command) IN
    IF Len(toks) = 1 THEN [state |-> SetItem(st, toks[1], ""), raised |-> FALSE]
    ELSE IF Len(toks) # 2 THEN [state |-> st, raised |-> TRUE]
    ELSE [state |-> SetItem(st, toks[1], toks[2]), raised |-> FALSE]

\* write that assigns into a fresh copy of the power-on dict instead of the
\* dict in use
StateMachine_write_FreshDict(st, command) ==
    LET toks == Split(command) IN
    IF command \in OnCommands
      THEN [state |-> SetItem(StateMachine_init, toks[1], "1"),
            raised |-> FALSE]
    ELSE IF command \in OffCommands
      THEN [state |-> SetItem(StateMachine_init, toks[1], "0"),
            raised |-> FALSE]
    ELSE IF Len(toks) # 2
      THEN [state |-> st, raised |-> TRUE]
    ELSE [state |-> SetItem(StateMachine_init, toks[1], toks[2]),
          raised |-> FALSE]

\* write(command): the new dict, and whether the unpacking of split() raised
StateMachine_write(st, command) ==
    LET toks == Split(command) IN
    IF command \in OnCommands
      THEN [state |-> SetItem(st, toks[1], "1"), raised |-> FALSE]
    ELSE IF command \in OffCommands
      THEN [state |-> SetItem(st, toks[1], "0"), raised |-> FALSE]
    ELSE IF Len(toks) # 2
      THEN [state |-> st, raised |-> TRUE]
    ELSE [state |-> SetItem(st, toks[1], toks[2]), raised |-> FALSE]

\* ReadKey without the strip of the query marker
ReadKey_NoStrip(command) == command

\* the key read(command) looks up
ReadKey(command) ==
    IF EndsWithQ(command) THEN SubSeq(command, 1, Len(command) - 1)
    ELSE command

\* read(command)
StateMachine_read(st, command) ==
    LET key == ReadKey(command) IN
    SplitSpaceLast(IF key \in DOMAIN st THEN st[key] ELSE "")

-----------------------------------------------------------------------------
\* DG4202MockInterface.  A call runs on a context
\* x = [state, killed, writes, reads, raised]; once an exception is raised
\* the rest of the calling operation is skipped.

Ctx(st, k) ==
    [state |-> st, killed |-> k, writes |-> <<>>, reads |-> <<>>,
     raised |-> FALSE]

\* MockInterface_write without the check of the killed flag
MockInterface_write_IgnoresKill(x, command) ==
    IF x.raised THEN x
    ELSE LET r == StateMachine_write(x.state, command)
         IN  [x EXCEPT !.writes = Append(@, command), !.state = r.state,
                       !.raised = r.raised]

MockInterface_write(x, command) ==
    IF x.raised THEN x
    ELSE LET x1 == [x EXCEPT !.writes = Append(@, command)] IN
         IF x.killed THEN x1
         ELSE LET r == StateMachine_write(x.state, command)
              IN  [x1 EXCEPT !.state = r.state, !.raised = r.raised]

\* MockInterface_read answering a killed read with the empty string
MockInterface_read_EmptyWhenKilled(x, command) ==
    IF x.killed THEN "" ELSE StateMachine_read(x.state, command)

\* the value read(command) returns
MockInterface_read(x, command) ==
    IF x.killed THEN NoneVal ELSE StateMachine_read(x.state, command)

\* the context after read(command) was called
DidRead(x, command) ==
    IF x.raised THEN x ELSE [x EXCEPT !.reads = Append(@, command)]

-----------------------------------------------------------------------------
\* DG4202, the device facade, bound to the mock interface.  Every operation
\* maps a context to [x |-> the context afterwards, ret |-> the return value].

Source(channel) == "SOURce" \o Ch(channel)

Done(x, r) == [x |-> x, ret |-> IF x.raised THEN NoneVal ELSE r]

\* set_waveform writing the frequency whether or not it is given
set_waveform_AlwaysFrequency(x, channel, w) ==
    LET S  == Source(channel)
        x1 == IF w.waveform_type # NoneVal
                THEN MockInterface_write(x, S \o ":FUNCtion " \o w.waveform_type)
                ELSE x
        x2 == MockInterface_write(x1,
                S \o ":FREQuency:FIXed " \o Str(w.frequency))
        x3 == IF w.amplitude # NoneVal
                THEN MockInterface_write(x2,
                       S \o ":VOLTage:LEVel:IMMediate:AMPLitude " \o w.amplitude)
                ELSE x2
        x4 == IF w.offset # NoneVal
                THEN MockInterface_write(x3,
                       S \o ":VOLTage:LEVel:IMMediate:OFFSet " \o w.offset)
                ELSE x3
    IN  Done(x4, NoneVal)

\* w: [waveform_type, frequency, amplitude, offset], NoneVal where absent
set_waveform(x, channel, w) ==
    LET S  == Source(channel)
        x1 == IF w.waveform_type # NoneVal
                THEN MockInterface_write(x, S \o ":FUNCtion " \o w.waveform_type)
                ELSE x
        x2 == IF w.frequency # NoneVal
                THEN MockInterface_write(x1, S \o ":FREQuency:FIXed " \o w.frequency)
                ELSE x1
        x3 == IF w.amplitude # NoneVal
                THEN MockInterface_write(x2,
                       S \o ":VOLTage:LEVel:IMMediate:AMPLitude " \o w.amplitude)
                ELSE x2
        x4 == IF w.offset # NoneVal
                THEN MockInterface_write(x3,
                       S \o ":VOLTage:LEVel:IMMediate:OFFSet " \o w.offset)
                ELSE x3
    IN  Done(x4, NoneVal)

\* turn_off_modes with the channel number left out of the commands
turn_off_modes_Channel1(x, channel) ==
    LET x1 == MockInterface_write(x, "SOURce1:SWEEp:STATe OFF")
        x2 == MockInterface_write(x1, "SOURce1:BURSt:STATe OFF")
        x3 == MockInterface_write(x2, "SOURce1:MOD:STATe OFF")
    IN  Done(x3, NoneVal)

turn_off_modes(x, channel) ==
    LET S  == Source(channel)
        x1 == MockInterface_write(x, S \o ":SWEEp:STATe OFF")
        x2 == MockInterface_write(x1, S \o ":BURSt:STATe OFF")
        x3 == MockInterface_write(x2, S \o ":MOD:STATe OFF")
    IN  Done(x3, NoneVal)

check_status(x) ==
    Done(DidRead(x, "*STB?"), MockInterface_read(x, "*STB?"))

\* output_on_off flipping the stored output instead of setting it
output_on_off_Toggles(x, channel, status) ==
    LET on == MockInterface_read(x, "OUTPut" \o Ch(channel) \o "?") = "1"
        command == IF ~on THEN "OUTPut" \o Ch(channel) \o " ON"
                   ELSE "OUTPut" \o Ch(channel) \o " OFF"
    IN  Done(MockInterface_write(x, command), NoneVal)

output_on_off(x, channel, status) ==
    LET command == IF status THEN "OUTPut" \o Ch(channel) \o " ON"
                   ELSE "OUTPut" \o Ch(channel) \o " OFF"
    IN  Done(MockInterface_write(x, command), NoneVal)

\* mod_type is NoneVal when not given
set_mode(x, channel, mode, mod_type) ==
    LET S == Source(channel)
        m == Lower(mode)
    IN  IF m = "sweep"
          THEN Done(MockInterface_write(x, S \o ":SWEEp:STATe ON"), NoneVal)
        ELSE IF m = "burst"
          THEN Done(MockInterface_write(x, S \o ":BURSt:STATe ON"), NoneVal)
        ELSE IF m = "mod"
          THEN LET x1 == MockInterface_write(x, S \o ":MOD:STATe ON")
                   x2 == IF mod_type # NoneVal /\ mod_type # ""
                           THEN MockInterface_write(x1,
                                  S \o ":MOD:TYPE " \o mod_type)
                           ELSE x1
               IN  Done(x2, NoneVal)
        ELSE IF m = "off"
          THEN turn_off_modes(x, channel)
        ELSE Done(x, NoneVal)

\* for param in names[i..]: read the parameter when the dict lacks it, then
\* write it.  prefix is the text before the parameter name.
RECURSIVE SetParams(_, _, _, _, _)
SetParams(x, prefix, names, i, params) ==
    IF i > Len(names) \/ x.raised THEN x
    ELSE LET p  == names[i]
             q  == prefix \o p \o "?"
             x1 == IF p \in DOMAIN params THEN x ELSE DidRead(x, q)
             v  == IF p \in DOMAIN params THEN params[p]
                   ELSE MockInterface_read(x, q)
             x2 == MockInterface_write(x1, prefix \o p \o " " \o Str(v))
         IN  SetParams(x2, prefix, names, i + 1, params)

set_modulation_mode(x, channel, mod_type, mod_params) ==
    LET S  == Source(channel)
        x1 == MockInterface_write(x, S \o ":MOD:STATe ON")
        x2 == MockInterface_write(x1, S \o ":MOD:TYPE " \o mod_type)
    IN  Done(SetParams(x2, S \o ":MOD:" \o mod_type \o ":", ModParams, 1,
                       mod_params), NoneVal)

set_burst_mode(x, channel, burst_params) ==
    LET S  == Source(channel)
        x1 == MockInterface_write(x, S \o ":BURSt:STATe ON")
    IN  Done(SetParams(x1, S \o ":BURSt:", BurstParams, 1, burst_params),
             NoneVal)

set_sweep_mode(x, channel, sweep_params) ==
    LET S  == Source(channel)
        x1 == MockInterface_write(x, S \o ":SWEEp:STATe ON")
    IN  Done(SetParams(x1, S \o ":SWEEp:", SweepParams, 1, sweep_params),
             NoneVal)

\* the contexts and values of reading names[1..n] with the given prefix
RECURSIVE ReadAll(_, _, _, _)
ReadAll(x, prefix, names, n) ==
    IF n = 0 THEN x
    ELSE DidRead(ReadAll(x, prefix, names, n - 1), prefix \o names[n] \o "?")

ParamValues(x, prefix, names) ==
    [p \in {names[i] : i \in 1..Len(names)} |->
        MockInterface_read(x, prefix \o p \o "?")]

\* get_mode testing the mod flag first and the sweep flag last
get_mode_ModFirst(x, channel) ==
    LET S           == Source(channel)
        sweep_state == MockInterface_read(x, S \o ":SWEEp:STATe?")
        burst_state == MockInterface_read(x, S \o ":BURSt:STATe?")
        mod_state   == MockInterface_read(x, S \o ":MOD:STATe?")
        mod_type    == IF mod_state = "1"
                         THEN MockInterface_read(x, S \o ":MOD:TYPE?")
                         ELSE NoneVal
        x3 == DidRead(DidRead(DidRead(x, S \o ":SWEEp:STATe?"),
                              S \o ":BURSt:STATe?"), S \o ":MOD:STATe?")
        x4 == IF mod_state = "1" THEN DidRead(x3, S \o ":MOD:TYPE?") ELSE x3
        modPrefix == S \o ":MOD:" \o Str(mod_type) \o ":"
    IN  IF mod_state = "1"
          THEN Done(ReadAll(x4, modPrefix, ModParams, 4),
                    [mode |-> "mod (" \o Str(mod_type) \o ")",
                     parameters |-> ParamValues(x, modPrefix, ModParams)])
        ELSE IF burst_state = "1"
          THEN Done(ReadAll(x4, S \o ":BURSt:", BurstParams, 4),
                    [mode |-> "burst",
                     parameters |-> ParamValues(x, S \o ":BURSt:", BurstParams)])
        ELSE IF sweep_state = "1"
          THEN Done(ReadAll(x4, S \o ":SWEEp:", SweepParams, 4),
                    [mode |-> "sweep",
                     parameters |-> ParamValues(x, S \o ":SWEEp:", SweepParams)])
        ELSE Done(x4, [mode |-> "off", parameters |-> <<>>])

get_mode(x, channel) ==
    LET S           == Source(channel)
        sweep_state == MockInterface_read(x, S \o ":SWEEp:STATe?")
        burst_state == MockInterface_read(x, S \o ":BURSt:STATe?")
        mod_state   == MockInterface_read(x, S \o ":MOD:STATe?")
        mod_type    == IF mod_state = "1"
                         THEN MockInterface_read(x, S \o ":MOD:TYPE?")
                         ELSE NoneVal
        x3 == DidRead(DidRead(DidRead(x, S \o ":SWEEp:STATe?"),
                              S \o ":BURSt:STATe?"), S \o ":MOD:STATe?")
        x4 == IF mod_state = "1" THEN DidRead(x3, S \o ":MOD:TYPE?") ELSE x3
        modPrefix == S \o ":MOD:" \o Str(mod_type) \o ":"
    IN  IF sweep_state = "1"
          THEN Done(ReadAll(x4, S \o ":SWEEp:", SweepParams, 4),
                    [mode |-> "sweep",
                     parameters |-> ParamValues(x, S \o ":SWEEp:", SweepParams)])
        ELSE IF burst_state = "1"
          THEN Done(ReadAll(x4, S \o ":BURSt:", BurstParams, 4),
                    [mode |-> "burst",
                     parameters |-> ParamValues(x, S \o ":BURSt:", BurstParams)])
        ELSE IF mod_state = "1"
          THEN Done(ReadAll(x4, modPrefix, ModParams, 4),
                    [mode |-> "mod (" \o Str(mod_type) \o ")",
                     parameters |-> ParamValues(x, modPrefix, ModParams)])
        ELSE Done(x4, [mode |-> "off", parameters |-> <<>>])

get_output_status(x, channel) ==
    LET q == "OUTPut" \o Ch(channel) \o "?"
    IN  Done(DidRead(x, q),
             IF MockInterface_read(x, q) = "1" THEN "ON" ELSE "OFF")

get_waveform_parameters(x, channel) ==
    LET S  == Source(channel)
        q1 == S \o ":FUNCtion?"
        q2 == S \o ":FREQuency:FIXed?"
        q3 == S \o ":VOLTage:LEVel:IMMediate:AMPLitude?"
        q4 == S \o ":VOLTage:LEVel:IMMediate:OFFSet?"
    IN  Done(DidRead(DidRead(DidRead(DidRead(x, q1), q2), q3), q4),
             [waveform_type |-> MockInterface_read(x, q1),
              frequency     |-> MockInterface_read(x, q2),
              amplitude     |-> MockInterface_read(x, q3),
              offset        |-> MockInterface_read(x, q4)])

\* What a VISA call does when it raises pyvisa.errors.VisaIOError instead of
\* answering.
VisaIOError == "<VisaIOError>"

\* Any other exception a VISA call can end in (a closed session, for one).
InvalidSession == "<InvalidSession>"

ReadFaults == {VisaIOError, InvalidSession}

\* the body of is_connection_alive with None counted as an answer
ConnectionAlive_NoneAlive(rd) == rd \notin ReadFaults

\* The body of is_connection_alive after its read ended in rd: a fault is
\* caught by the bare except, None is tested, anything else is an answer.
ConnectionAlive(rd) ==
    IF rd \in ReadFaults THEN FALSE
    ELSE IF rd = NoneVal THEN FALSE
    ELSE TRUE

\* is_connection_alive of a facade bound to the mock, whose read never raises
is_connection_alive(x) ==
    LET q == "SOURce1:FUNCtion?"
    IN  Done(DidRead(x, q), ConnectionAlive(MockInterface_read(x, q)))

\* is_connection_alive of a facade bound to a VISA interface (DG4202Ethernet,
\* DG4202USB), whose read is inst.query and ends in rd
is_connection_alive_visa(x, rd) ==
    LET q == "SOURce1:FUNCtion?"
    IN  Done(DidRead(x, q), ConnectionAlive(rd))

-----------------------------------------------------------------------------
\* DG4202APIServer routes.  The response is [code, body]; an exception in a
\* route is answered by Flask with code 500.

Response(x, code, body) ==
    [x |-> x, ret |-> IF x.raised THEN [code |-> 500, body |-> NoneVal]
                      ELSE [code |-> code, body |-> body]]

\* POST /api/command; command is NoneVal when the body has no such field
send_command(x, command) ==
    IF command = NoneVal THEN Response(x, 400, "None failed.")
    ELSE Response(MockInterface_write(x, command), 200, command \o " sent")

\* GET /api/state; key is NoneVal when the parameter is missing
get_state(x, key) ==
    IF key = NoneVal THEN Response(x, 422, "state parameter is missing.")
    ELSE Response(DidRead(x, key), 200, MockInterface_read(x, key))

\* POST /api/simulate_kill of api/dg4202_api.py: [killed, code]
APIServer_simulate_kill(k, kill) ==
    IF kill = "true" THEN [killed |-> TRUE, code |-> 200]
    ELSE IF kill = "false" THEN [killed |-> TRUE, code |-> 200]
    ELSE [killed |-> k, code |-> 400]

\* POST /api/simulate_kill of device/dg4202.py: [killed, code]
\* the route with a rejection that sets the flag all the same
DeviceAPIServer_simulate_kill_RejectKills(k, kill) ==
    IF kill = "true" THEN [killed |-> TRUE, code |-> 200]
    ELSE IF kill = "false" THEN [killed |-> FALSE, code |-> 200]
    ELSE [killed |-> TRUE, code |-> 400]

\* POST /api/simulate_kill of device/dg4202.py on a mock transport
DeviceAPIServer_simulate_kill(k, kill) ==
    IF kill = "true" THEN [killed |-> TRUE, code |-> 200]
    ELSE IF kill = "false" THEN [killed |-> FALSE, code |-> 200]
    ELSE [killed |-> k, code |-> 400]

-----------------------------------------------------------------------------
\* Inputs

WaveformInputs ==
    [waveform_type : {NoneVal, "SQUARE"}, frequency : {NoneVal, "500.0"},
     amplitude : {NoneVal, "5.0"}, offset : {NoneVal, "1.5"}]

ModeInputs == {"off", "sweep", "burst", "mod", "SWEEP", "pulse"}

ModTypeInputs(mode) == IF Lower(mode) = "mod" THEN {NoneVal, "AM"} ELSE {NoneVal}

\* parameter dicts: empty, the first parameter only, all four parameters
ParamDicts(names) ==
    { [p \in {} |-> "5"], [p \in {names[1]} |-> "5"],
      [p \in {names[i] : i \in 1..Len(names)} |-> "5"] }

ToggleKeys ==
    UNION { { "OUTPut" \o Ch(c), Source(c) \o ":SWEEp:STATe",
              Source(c) \o ":BURSt:STATe", Source(c) \o ":MOD:STATe" }
            : c \in Channels }

CommandInputs ==
    { k \o " ON" : k \in ToggleKeys } \cup { k \o " OFF" : k \in ToggleKeys }
    \cup { "SOURce1:FREQuency:FIXed 500.0", "SOURce1:FUNCtion SQUARE",
           "*STB? 1", "OUTPut1", NoneVal }

StateInputs ==
    { "SOURce1:FREQuency:FIXed", "SOURce1:FREQuency:FIXed?", "*STB?",
      "*STB??", "OUTPut2", "SOURce2:SWEEp:STATe?", NoneVal }

\* POST /api/simulate_kill of either server: the isinstance test of the bound
\* transport comes first, and a transport that is not the mock is answered
\* 400 "interface is not a hardware mock" with nothing called.
simulate_kill_route(which, isMock, k, kill) ==
    IF ~isMock THEN [killed |-> k, code |-> 400]
    ELSE IF which = "api" THEN APIServer_simulate_kill(k, kill)
    ELSE DeviceAPIServer_simulate_kill(k, kill)

Servers == {"api", "device"}

\* DG4202APIServer.run has started the server: a non-daemon thread serves
\* requests, the main thread of the process runs, no stop was requested.
ServerStarted == [serving |-> TRUE, main |-> "running", stopRequested |-> FALSE]

\* os.kill(os.getpid(), signal.SIGINT): the signal is handled by the main
\* thread of the process, the thread that serves is not told anything
SentSigint(s) ==
    [s EXCEPT !.main = IF @ = "running" THEN "signalled" ELSE @]

\* POST /api/stop of device/dg4202.py: the signal is sent, then the answer
\* is returned
DeviceAPIServer_stop_server(s) ==
    [server |-> [SentSigint(s) EXCEPT !.stopRequested = TRUE],
     ret |-> [code |-> 200, body |-> "Server shutting down..."],
     raised |-> FALSE]

\* POST /api/stop of api/dg4202_api.py: self.stop() is an AttributeError,
\* the class has no stop method, and the request is answered 500
APIServer_stop_server(s) ==
    [server |-> [s EXCEPT !.stopRequested = TRUE],
     ret |-> [code |-> 500, body |-> NoneVal],
     raised |-> TRUE]

stop_server(which, s) ==
    IF which = "api" THEN APIServer_stop_server(s)
    ELSE DeviceAPIServer_stop_server(s)

\* the threads that call the mock transport: a request thread of the API
\* server and a callback thread of the UI
Threads == {"api", "ui"}

\* no call of DG4202MockInterface.write is in progress
NoWriters == [t \in Threads |-> NoneVal]

\* DG4202MockInterface.write up to its test of the killed flag: the command
\* the call goes on with, NoneVal when it returns at once
MockInterface_write_test(k, command) == IF k THEN NoneVal ELSE command

\* the commands the concurrent callers write
RaceWrites ==
    { "OUTPut1 ON", "OUTPut1 OFF", "SOURce1:FREQuency:FIXed 500.0",
      "SOURce1:FREQuency:FIXed 700.0", "SOURce2:FUNCtion RAMP" }

KillInputs == { "true", "false", "yes", NoneVal }

-----------------------------------------------------------------------------
\* DG4202Detector

\* An optional value of the detector and the frontend: None is the empty
\* tuple, any other value v is <<v>>.
Null == <<>>

Some(v) == <<v>>

\* re.match("^" + prefix, s)
StartsWith(s, prefix) ==
    Len(s) >= Len(prefix) /\ SubSeq(s, 1, Len(prefix)) = prefix

\* position of the first occurrence of sub in s at or after i, 0 if none
RECURSIVE Find(_, _, _)
Find(s, sub, i) ==
    IF i + Len(sub) - 1 > Len(s) THEN 0
    ELSE IF SubSeq(s, i, i + Len(sub) - 1) = sub THEN i
    ELSE Find(s, sub, i + 1)

\* sub in s
Contains(s, sub) == Find(s, sub, 1) # 0

\* s[i:].split(sep)
RECURSIVE SplitSepFrom(_, _, _)
SplitSepFrom(s, sep, i) ==
    LET j == Find(s, sep, i) IN
    IF j = 0 THEN << SubSeq(s, i, Len(s)) >>
    ELSE << SubSeq(s, i, j - 1) >> \o SplitSepFrom(s, sep, j + Len(sep))

\* s.split(sep)
SplitSep(s, sep) == SplitSepFrom(s, sep, 1)

\* the resource identifier is one the detector probes
IsCandidate_Any(name) == TRUE

IsCandidate(name) == StartsWith(name, "TCPIP") \/ StartsWith(name, "USB")

\* The interface the detector constructs for the candidate r: the resource
\* its constructor opens, and whether split('::')[1] raised IndexError.
Bind(r) ==
    IF StartsWith(r.name, "TCPIP")
    THEN LET pieces == SplitSep(r.name, "::") IN
         IF Len(pieces) < 2
         THEN [interface |-> "DG4202Ethernet", resource |-> "",
               indexError |-> TRUE]
         ELSE [interface |-> "DG4202Ethernet",
               resource |-> "TCPIP::" \o pieces[2] \o "::INSTR",
               indexError |-> FALSE]
    ELSE [interface |-> "DG4202USB", resource |-> r.name,
          indexError |-> FALSE]

\* The body of the try statement for the candidate r, after the calls logged
\* in log: "found" with the facade, "next" when the loop goes on (the
\* identity is another one, or VisaIOError was caught), "raise" when another
\* exception leaves detect_device.
Probe_Unguarded(r, log) ==
    LET opened == [log EXCEPT !.opened = Append(@, r.name)]
        queried == [opened EXCEPT !.queried = Append(@, r.name)]
        b == Bind(r)
        bound == [queried EXCEPT !.opened = Append(@, b.resource)]
    IN  IF ~r.opens THEN [end |-> "raise", device |-> Null, log |-> opened]
        ELSE IF r.idn = VisaIOError
        THEN [end |-> "raise", device |-> Null, log |-> queried]
        ELSE IF ~Contains(r.idn, "DG4202")
        THEN [end |-> "next", device |-> Null, log |-> queried]
        ELSE IF b.indexError
        THEN [end |-> "raise", device |-> Null, log |-> queried]
        ELSE IF ~r.binds
        THEN [end |-> "raise", device |-> Null, log |-> bound]
        ELSE [end |-> "found",
              device |-> Some([interface |-> b.interface,
                               resource |-> b.resource]),
              log |-> bound]

Probe(r, log) ==
    LET opened == [log EXCEPT !.opened = Append(@, r.name)]
        queried == [opened EXCEPT !.queried = Append(@, r.name)]
        b == Bind(r)
        bound == [queried EXCEPT !.opened = Append(@, b.resource)]
    IN  IF ~r.opens THEN [end |-> "next", device |-> Null, log |-> opened]
        ELSE IF r.idn = VisaIOError
        THEN [end |-> "next", device |-> Null, log |-> queried]
        ELSE IF ~Contains(r.idn, "DG4202")
        THEN [end |-> "next", device |-> Null, log |-> queried]
        ELSE IF b.indexError
        THEN [end |-> "raise", device |-> Null, log |-> queried]
        ELSE IF ~r.binds
        THEN [end |-> "next", device |-> Null, log |-> bound]
        ELSE [end |-> "found",
              device |-> Some([interface |-> b.interface,
                               resource |-> b.resource]),
              log |-> bound]

\* the for loop of detect_device from the i-th resource on
RECURSIVE DetectFrom(_, _, _)
DetectFrom(rs, i, log) ==
    IF i > Len(rs)
    THEN [ret |-> Null, opened |-> log.opened, queried |-> log.queried,
          raised |-> FALSE]
    ELSE IF ~IsCandidate(rs[i].name) THEN DetectFrom(rs, i + 1, log)
    ELSE LET p == Probe(rs[i], log) IN
         IF p.end = "next" THEN DetectFrom(rs, i + 1, p.log)
         ELSE [ret |-> p.device, opened |-> p.log.opened,
               queried |-> p.log.queried, raised |-> p.end = "raise"]

\* the loop when a match does not end it: the last match is returned
RECURSIVE DetectLastFrom(_, _, _, _)
DetectLastFrom(rs, i, log, found) ==
    IF i > Len(rs)
    THEN [ret |-> found, opened |-> log.opened, queried |-> log.queried,
          raised |-> FALSE]
    ELSE IF ~IsCandidate(rs[i].name) THEN DetectLastFrom(rs, i + 1, log, found)
    ELSE LET p == Probe(rs[i], log) IN
         IF p.end = "raise"
         THEN [ret |-> Null, opened |-> p.log.opened,
               queried |-> p.log.queried, raised |-> TRUE]
         ELSE DetectLastFrom(rs, i + 1, p.log,
                             IF p.end = "found" THEN p.device ELSE found)

detect_device_LastMatch(rs) ==
    DetectLastFrom(rs, 1, [opened |-> <<>>, queried |-> <<>>], Null)

\* DG4202Detector.detect_device() when rm.list_resources() is rs
detect_device(rs) == DetectFrom(rs, 1, [opened |-> <<>>, queried |-> <<>>])

-----------------------------------------------------------------------------
\* StateManager and DG4202Manager: the liveness record

\* The file at json_file_path is missing, empty (size 0), malformed (not
\* JSON) or holds the JSON object json.dump wrote ("json").
FileOf(kind, start) == [kind |-> kind, last_known_device_uptime |-> start]

\* StateManager.read_state: the dict read from the file f
\* kinds of f: "json" holds a dict with the key last_known_device_uptime,
\* "object" is well-formed JSON without that key (json.load returns it as it
\* is), "missing" makes stat() raise FileNotFoundError, "empty" has size 0,
\* "malformed" makes json.load raise a ValueError
read_state(f) ==
    IF f.kind = "json"
    THEN [last_known_device_uptime |-> f.last_known_device_uptime]
    ELSE IF f.kind = "object"
    THEN [uptime |-> Null]
    ELSE [last_known_device_uptime |-> Null]

\* StateManager.write_state: the file after json.dump(st, f)
write_state(st) == FileOf("json", st.last_known_device_uptime)

\* "%02d" % n
Pad2(n) == IF n < 10 THEN "0" \o ToString(n) ELSE ToString(n)

\* str(timedelta(seconds=s)) for an int s
timedelta_str(s) ==
    LET days == s \div 86400
        seconds == s % 86400
        hh == seconds \div 3600
        mm == (seconds \div 60) % 60
        ss == seconds % 60
        clock == ToString(hh) \o ":" \o Pad2(mm) \o ":" \o Pad2(ss)
    IN  IF days # 0
        THEN ToString(days) \o " day"
                 \o (IF days # 1 /\ days # -1 THEN "s" ELSE "") \o ", "
                 \o clock
        ELSE clock

\* the mock device DG4202Manager holds
MockDevice == [interface |-> "DG4202Mock", resource |-> ""]

\* the dict create_dg4202 writes after it found the device alive at time t
Alive_StampZero(st, t) ==
    [st EXCEPT !.last_known_device_uptime = IF @ = Null THEN Some(0) ELSE @]

Alive_Restamp(st, t) == [st EXCEPT !.last_known_device_uptime = Some(t)]

Alive(st, t) ==
    [st EXCEPT !.last_known_device_uptime = IF @ = Null THEN Some(t) ELSE @]

\* the dict create_dg4202 writes after it found the device dead
Dead_Keep(st) == st

Dead(st) == [st EXCEPT !.last_known_device_uptime = Null]

\* create_dg4202 that hands out the mock without looking at its killed flag
create_dg4202_IgnoresKill(hm, k, rs, f, t) ==
    LET st == read_state(f) IN
    IF hm
    THEN [file |-> write_state(Alive(st, t)), ret |-> Some(MockDevice),
          raised |-> FALSE]
    ELSE LET d == detect_device(rs) IN
         IF d.raised THEN [file |-> f, ret |-> Null, raised |-> TRUE]
         ELSE IF d.ret = Null
         THEN [file |-> write_state(Dead(st)), ret |-> Null,
               raised |-> FALSE]
         ELSE [file |-> write_state(Alive(st, t)), ret |-> d.ret,
               raised |-> FALSE]

\* DG4202Manager.create_dg4202 at time t, when the mock's killed flag is k,
\* the resources are rs and the file is f
create_dg4202(hm, k, rs, f, t) ==
    LET st == read_state(f) IN
    IF hm
    THEN IF k
         THEN [file |-> write_state(Dead(st)), ret |-> Null,
               raised |-> FALSE]
         ELSE [file |-> write_state(Alive(st, t)), ret |-> Some(MockDevice),
               raised |-> FALSE]
    ELSE LET d == detect_device(rs) IN
         IF d.raised THEN [file |-> f, ret |-> Null, raised |-> TRUE]
         ELSE IF d.ret = Null
         THEN [file |-> write_state(Dead(st)), ret |-> Null,
               raised |-> FALSE]
         ELSE [file |-> write_state(Alive(st, t)), ret |-> d.ret,
               raised |-> FALSE]

\* DG4202Manager.get_device_uptime and factory.get_device_uptime at time t
get_device_uptime(f, t) ==
    LET start == read_state(f).last_known_device_uptime IN
    IF start # Null /\ start[1] # 0
    THEN timedelta_str(t - start[1])
    ELSE "N/A"

\* the file init_managers leaves
init_managers == write_state([last_known_device_uptime |-> Null])

-----------------------------------------------------------------------------
\* Inputs of the detector and the frontend

\* Bound on the number of resources rm.list_resources() enumerates.
MaxResources == 3

ResourceNames ==
    { "TCPIP0::192.168.1.1::INSTR", "TCPIP0::192.168.1.2::INSTR",
      "USB0::0x1AB1::0x0641::DG4E1::INSTR", "ASRL1::INSTR" }

Dg4202Idn == "Rigol Technologies,DG4202,DG4E1,00.01"

OtherIdn == "Rigol Technologies,DG1022,DG1D1,00.01"

\* How a resource behaves: whether rm.open_resource of its name succeeds,
\* what it answers to *IDN? and whether the open in the interface's
\* constructor succeeds.
Behaviours ==
    { [opens |-> FALSE, idn |-> VisaIOError, binds |-> FALSE],
      [opens |-> TRUE, idn |-> VisaIOError, binds |-> FALSE],
      [opens |-> TRUE, idn |-> OtherIdn, binds |-> TRUE],
      [opens |-> TRUE, idn |-> Dg4202Idn, binds |-> FALSE],
      [opens |-> TRUE, idn |-> Dg4202Idn, binds |-> TRUE] }

Descriptors ==
    { [name |-> n, opens |-> b.opens, idn |-> b.idn, binds |-> b.binds] :
        n \in ResourceNames, b \in Behaviours }

\* the enumerations: up to MaxResources resources of different names
ResourceLists ==
    UNION { { rs \in [1..n -> Descriptors] :
                \A i, j \in 1..n : rs[i].name = rs[j].name => i = j } :
            n \in 0..MaxResources }

\* the enumerations of a frontend whose instrument is plugged in
GoodUsb ==
    [name |-> "USB0::0x1AB1::0x0641::DG4E1::INSTR", opens |-> TRUE,
     idn |-> Dg4202Idn, binds |-> TRUE]

DeadTcp ==
    [name |-> "TCPIP0::192.168.1.1::INSTR", opens |-> FALSE,
     idn |-> VisaIOError, binds |-> FALSE]

PluggedIn == { << GoodUsb >>, << DeadTcp, GoodUsb >> }

\* the enumerations of a frontend whose instrument is gone
Unplugged == { << >>, << DeadTcp >> }

\* what inst.query("SOURce1:FUNCtion?") of a VISA interface can end in
QueryOutcomes == ReadFaults \cup {"SIN", "SQU", ""}

\* the mode flags written through the interface of the facade
FlagWrites ==
    { "SOURce1:SWEEp:STATe ON", "SOURce1:BURSt:STATe ON",
      "SOURce1:MOD:STATe ON", "SOURce2:SWEEp:STATe ON",
      "SOURce2:BURSt:STATe ON", "SOURce2:MOD:STATe ON" }

\* the values written through the interface of the facade: the output of
\* channel 1 as a toggle and as the words ON and OFF after two spaces, and a
\* frequency that is no number
ValueWrites ==
    { "OUTPut1 ON", "OUTPut1  ON", "OUTPut1  OFF",
      "SOURce1:FREQuency:FIXed abc" }

\* the commands written to the state machine direct
StoreWrites ==
    { "OUTPut1 ON", "OUTPut1 OFF", "SOURce2:SWEEp:STATe OFF",
      "SOURce1:FREQuency:FIXed 500.0", "SOURce1:FUNCtion  RAMP", "*STB? 1",
      "NEW:KEY 7", "OUTPut1", "", "OUTPut1 ON ON" }

\* the commands read from the state machine direct
StoreReads ==
    { "OUTPut1?", "OUTPut1", "SOURce1:FREQuency:FIXed?", "*STB?", "*STB??",
      "NEW:KEY?", "NEW:KEY", "UNKNOWN?", "UNKNOWN", "", "?" }

\* the instants at which time.time() is read, in whole seconds
ClockReadings == { 1000, 1001, 1061, 4661, 87400, 91061, 174000 }

\* the callables handed to add_action: print_message returns, fail raises
Functions == {"print_message", "fail"}

\* the callables whose call raises
FailingFunctions == {"fail"}

\* add_action calls of one run
MaxActions == 2

\* check_timers calls of one run
MaxChecks == 3

\* the whole seconds actions are scheduled at
ScheduleSeconds == {1001, 4661}

\* the microseconds of a scheduled time
ScheduleMicros == {0, 500000}

\* the datetimes handed to add_action
ScheduleTimes == [s : ScheduleSeconds, us : ScheduleMicros]

\* str(datetime): the microseconds are printed only when they are not zero
datetime_str(t) ==
    IF t.us = 0 THEN ToString(t.s) ELSE ToString(t.s) \o "." \o ToString(t.us)

\* datetime.strptime(text, '%Y-%m-%d %H:%M:%S.%f'): a text without the
\* fraction does not match the format (ValueError)
strptime(text) ==
    LET dot == Find(text, ".", 1)
    IN  IF dot = 0 \/ dot = 1 \/ dot = Len(text)
        THEN [ok |-> FALSE, s |-> 0, us |-> 0]
        ELSE [ok |-> TRUE,
              s  |-> CHOOSE n \in ScheduleSeconds :
                         ToString(n) = SubSeq(text, 1, dot - 1),
              us |-> CHOOSE u \in ScheduleMicros \ {0} :
                         ToString(u) = SubSeq(text, dot + 1, Len(text))]

\* now >= target_time, the clock read at a whole second
Due(t, target) == t > target.s \/ (t = target.s /\ target.us = 0)

\* json.dump(..., default=str) of one action: the callable is written as
\* its str()
json_default_str(a) == [a EXCEPT !.action = "<function " \o a.action \o ">"]

\* Scheduler.write_state: the file holds the dump of self.actions
Scheduler_write_state(actions) ==
    [i \in 1..Len(actions) |->
        IF actions[i].action \in Functions THEN json_default_str(actions[i])
        ELSE actions[i]]

\* Scheduler.read_state: json.load of the file, [] when it is empty or missing
Scheduler_read_state(f) == f

\* a Scheduler constructed over an empty file
NoSchedule ==
    [actions |-> Scheduler_read_state(<<>>), file |-> <<>>, executed |-> <<>>,
     added |-> 0, checks |-> 0, raised |-> FALSE, loaded |-> FALSE]

\* Scheduler.add_action
add_action(sc, time, action) ==
    LET entry == [id |-> sc.added + 1, time |-> datetime_str(time),
                  action |-> action, last_execution |-> Null]
        actions == Append(sc.actions, entry)
    IN  [sc EXCEPT !.actions = actions, !.added = @ + 1,
                   !.file = Scheduler_write_state(actions), !.raised = FALSE]

\* dict equality of two actions (the id is the identity of the object)
SameDict(a, b) ==
    /\ a.time = b.time
    /\ a.action = b.action
    /\ a.last_execution = b.last_execution

\* list.remove: removes the first element equal to a
RECURSIVE ListRemove(_, _)
ListRemove(l, a) ==
    IF l = <<>> THEN <<>>
    ELSE IF SameDict(Head(l), a) THEN Tail(l)
    ELSE <<Head(l)>> \o ListRemove(Tail(l), a)

\* the loop of check_timers over self.actions.copy(), from position i
RECURSIVE CheckFrom(_, _, _, _, _)
CheckFrom(copy, i, actions, executed, t) ==
    IF i > Len(copy)
    THEN [actions |-> actions, executed |-> executed, raised |-> FALSE]
    ELSE
      LET a == copy[i]
          target_time == strptime(a.time)
      IN  IF ~target_time.ok
          THEN [actions |-> actions, executed |-> executed, raised |-> TRUE]
          ELSE IF ~Due(t, target_time)
          THEN CheckFrom(copy, i + 1, actions, executed, t)
          ELSE IF a.action \notin Functions
          THEN [actions |-> actions, executed |-> executed, raised |-> TRUE]
          ELSE IF a.action \in FailingFunctions
          THEN [actions |-> actions, executed |-> Append(executed, a.id),
                raised |-> TRUE]
          ELSE
            LET done == [a EXCEPT !.last_execution = Some(t)]
                marked == [j \in 1..Len(actions) |->
                              IF actions[j].id = a.id THEN done
                              ELSE actions[j]]
            IN  CheckFrom(copy, i + 1, ListRemove(marked, done),
                          Append(executed, a.id), t)

\* Scheduler.check_timers at the clock reading t
check_timers(sc, t) ==
    LET r == CheckFrom(sc.actions, 1, sc.actions, sc.executed, t)
    IN  [sc EXCEPT !.actions = r.actions, !.executed = r.executed,
                   !.raised = r.raised, !.checks = @ + 1,
                   !.file = IF r.raised THEN @
                            ELSE Scheduler_write_state(r.actions)]

\* Scheduler.__init__ of a new process over the persisted file
Scheduler_init(sc) ==
    [sc EXCEPT !.actions = Scheduler_read_state(sc.file), !.raised = FALSE,
               !.loaded = TRUE]

\* the periodic callers of create_dg4202: update_uptime on every tick of the
\* global ticker, and DashboardPage.reconnect
Pollers == {"update_uptime", "reconnect"}

\* Bound on the number of create_dg4202 calls in one run of concurrent polls
MaxPolls == 3

\* a caller that is not inside create_dg4202
IdlePoll == [pc |-> "idle", st |-> [last_known_device_uptime |-> Null],
             ret |-> Null]

\* no create_dg4202 call is in progress; count is the number of calls made,
\* last is what the latest probe of the device found ("none" before any)
NoPolls == [calls |-> [p \in Pollers |-> IdlePoll], count |-> 0,
            last |-> "none"]

\* create_dg4202 between state = read_state() and write_state(state): the
\* device is looked for (the killed flag of the mock, or detect_device) and
\* the dict is changed; st is the dict read, t is time.time()
create_dg4202_probe(hm, k, rs, st, t) ==
    LET found == IF hm THEN (IF k THEN Null ELSE Some(MockDevice))
                 ELSE detect_device(rs).ret
    IN  IF ~hm /\ detect_device(rs).raised
        THEN [pc |-> "raised", st |-> st, ret |-> Null]
        ELSE IF found = Null
        THEN [pc |-> "probed", st |-> Dead(st), ret |-> Null]
        ELSE [pc |-> "probed", st |-> Alive(st, t), ret |-> found]

\* what the file of a StateManager can hold when it is read
FileContents ==
    { FileOf("json", start) :
          start \in {Null} \cup { Some(t) : t \in ClockReadings } }
    \cup { FileOf(kind, Null) :
              kind \in {"missing", "empty", "malformed", "object"} }

FirstReading == CHOOSE t \in ClockReadings : \A u \in ClockReadings : t <= u

-----------------------------------------------------------------------------
\* The state machine

Init ==
    /\ state = StateMachine_init
    /\ killed = FALSE
    /\ op = [name |-> "init", channel |-> 0, arg |-> NoneVal]
    /\ ret = NoneVal
    /\ writes = <<>>
    /\ reads = <<>>
    /\ raised = FALSE
    /\ liveState = StateMachine_init
    /\ absorbed = FALSE
    /\ repeated = FALSE
    /\ nops = 0
    /\ resources = << >>
    /\ hardware_mock = TRUE
    /\ file = init_managers
    /\ now = FirstReading
    /\ downAt = Null
    /\ deadPollAt = Null
    /\ server = ServerStarted
    /\ writers = NoWriters
    /\ polls = NoPolls
    /\ sched = NoSchedule

Here == Ctx(state, killed)

SameCall(o1, o2) ==
    o1.name = o2.name /\ o1.channel = o2.channel /\ o1.arg = o2.arg

\* operation o, called while fewer than max calls were made, ran through the
\* interface with result r
Commit(max, o, r) ==
    /\ nops < max
    /\ nops' = nops + 1
    /\ op' = o
    /\ repeated' = SameCall(o, op)
    /\ absorbed' = IF killed /\ r.x.writes # <<>> THEN TRUE ELSE absorbed
    /\ state' = r.x.state
    /\ ret' = r.ret
    /\ writes' = r.x.writes
    /\ reads' = r.x.reads
    /\ raised' = r.x.raised
    /\ liveState' = IF killed THEN liveState ELSE r.x.state
    /\ UNCHANGED killed
    /\ UNCHANGED frontend

\* operation o set the killed flag to k
CommitKill(o, k, r) ==
    /\ nops < MaxCalls
    /\ nops' = nops + 1
    /\ op' = o
    /\ repeated' = SameCall(o, op)
    /\ absorbed' = IF ~killed /\ k THEN FALSE ELSE absorbed
    /\ killed' = k
    /\ ret' = r
    /\ writes' = <<>>
    /\ reads' = <<>>
    /\ raised' = FALSE
    /\ liveState' = IF killed THEN liveState ELSE state
    /\ UNCHANGED state
    /\ UNCHANGED frontend

Call(name, channel, arg) == [name |-> name, channel |-> channel, arg |-> arg]

SetWaveform ==
    \E c \in Channels, w \in WaveformInputs :
        Commit(MaxOps, Call("set_waveform", c, w), set_waveform(Here, c, w))

SetMode ==
    \E c \in Channels, m \in ModeInputs :
        \E t \in ModTypeInputs(m) :
            Commit(MaxOps, Call("set_mode", c, [mode |-> m, mod_type |-> t]),
                   set_mode(Here, c, m, t))

SetSweepMode ==
    \E c \in Channels, d \in ParamDicts(SweepParams) :
        Commit(MaxOps, Call("set_sweep_mode", c, d), set_sweep_mode(Here, c, d))

SetBurstMode ==
    \E c \in Channels, d \in ParamDicts(BurstParams) :
        Commit(MaxOps, Call("set_burst_mode", c, d), set_burst_mode(Here, c, d))

SetModulationMode ==
    \E c \in Channels, d \in ParamDicts(ModParams) :
        Commit(MaxOps, Call("set_modulation_mode", c, d),
               set_modulation_mode(Here, c, "AM", d))

OutputOnOff ==
    \E c \in Channels, status \in BOOLEAN :
        Commit(MaxOps, Call("output_on_off", c, status),
               output_on_off(Here, c, status))

GetMode ==
    \E c \in Channels :
        Commit(MaxOps, Call("get_mode", c, NoneVal), get_mode(Here, c))

GetOutputStatus ==
    \E c \in Channels :
        Commit(MaxOps, Call("get_output_status", c, NoneVal),
               get_output_status(Here, c))

GetWaveformParameters ==
    \E c \in Channels :
        Commit(MaxOps, Call("get_waveform_parameters", c, NoneVal),
               get_waveform_parameters(Here, c))

CheckStatus ==
    Commit(MaxCalls, Call("check_status", 0, NoneVal), check_status(Here))

IsConnectionAlive ==
    Commit(MaxCalls, Call("is_connection_alive", 0, NoneVal), is_connection_alive(Here))

IsConnectionAliveVisa ==
    \E rd \in QueryOutcomes :
        Commit(MaxCalls, Call("is_connection_alive", 0, rd),
               is_connection_alive_visa(Here, rd))

SimulateKill ==
    \E kill \in BOOLEAN :
        CommitKill(Call("simulate_kill", 0, kill), kill, NoneVal)

ApiSendCommand ==
    \E command \in CommandInputs :
        Commit(MaxCalls, Call("send_command", 0, command), send_command(Here, command))

ApiGetState ==
    \E key \in StateInputs :
        Commit(MaxCalls, Call("get_state", 0, key), get_state(Here, key))

ApiSimulateKill ==
    \E kill \in KillInputs :
        LET r == APIServer_simulate_kill(killed, kill)
        IN  CommitKill(Call("api_simulate_kill", 0, kill), r.killed, r.code)

DeviceApiSimulateKill ==
    \E kill \in KillInputs :
        LET r == DeviceAPIServer_simulate_kill(killed, kill)
        IN  CommitKill(Call("device_api_simulate_kill", 0, kill), r.killed,
                       r.code)

\* mode operations of the facade
\* interface.write(command), called on the interface the facade is bound
\* to, for one of the given commands; any number of these writes may
\* precede a facade operation
InterfaceWrite(commands) ==
    \E command \in commands :
        LET x == MockInterface_write(Here, command) IN
            /\ op' = Call("interface_write", 0, command)
            /\ repeated' = SameCall(Call("interface_write", 0, command), op)
            /\ absorbed' = IF killed THEN TRUE ELSE absorbed
            /\ state' = x.state
            /\ ret' = NoneVal
            /\ writes' = x.writes
            /\ reads' = x.reads
            /\ raised' = x.raised
            /\ liveState' = IF killed THEN liveState ELSE x.state
            /\ UNCHANGED <<killed, nops>>
            /\ UNCHANGED frontend

WriteFlag == InterfaceWrite(FlagWrites)

WriteValue == InterfaceWrite(ValueWrites)

\* DG4202StateMachine.write(command), called on the state machine itself
StateMachineWrite ==
    /\ nops < MaxOps
    /\ \E command \in StoreWrites :
           LET w == StateMachine_write(state, command) IN
               /\ op' = Call("write", 0, command)
               /\ state' = w.state
               /\ liveState' = w.state
               /\ raised' = w.raised
    /\ ret' = NoneVal
    /\ nops' = nops + 1
    /\ UNCHANGED <<killed, writes, reads, absorbed, repeated>>
    /\ UNCHANGED frontend

\* DG4202StateMachine.read(command), called on the state machine itself
StateMachineRead ==
    /\ nops < MaxOps
    /\ \E command \in StoreReads :
           /\ op' = Call("read", 0, command)
           /\ ret' = StateMachine_read(state, command)
    /\ raised' = FALSE
    /\ nops' = nops + 1
    /\ UNCHANGED <<state, killed, writes, reads, liveState, absorbed,
                   repeated>>
    /\ UNCHANGED frontend

\* DG4202Detector.detect_device() is called once on what is enumerated
DetectDevice ==
    /\ op.name = "init"
    /\ LET d == detect_device(resources) IN
           /\ op' = Call("detect_device", 0, NoneVal)
           /\ ret' = d
           /\ raised' = d.raised
    /\ UNCHANGED <<state, killed, writes, reads, liveState, absorbed,
                   repeated, nops>>
    /\ UNCHANGED frontend

\* the device answers the frontend: the mock is not killed, or the detector
\* finds the instrument
Responding ==
    IF hardware_mock THEN ~killed ELSE detect_device(resources).ret # Null

\* time passes
Tick ==
    /\ \E t \in ClockReadings : t > now /\ now' = t
    /\ UNCHANGED <<op, ret>>
    /\ UNCHANGED device
    /\ UNCHANGED <<resources, hardware_mock, server, threads, file, downAt,
                   deadPollAt>>

\* the device stops responding: the mock is killed, or the instrument
\* leaves the enumeration
DeviceStops ==
    /\ Responding
    /\ IF hardware_mock
       THEN killed' = TRUE /\ UNCHANGED resources
       ELSE (\E rs \in Unplugged : resources' = rs) /\ UNCHANGED killed
    /\ downAt' = Some(now)
    /\ op' = Call("device_stops", 0, NoneVal)
    /\ UNCHANGED ret
    /\ UNCHANGED <<state, writes, reads, raised, liveState, absorbed,
                   repeated, nops>>
    /\ UNCHANGED <<hardware_mock, server, threads, file, now, deadPollAt>>

\* the device responds again
DeviceResponds ==
    /\ ~Responding
    /\ IF hardware_mock
       THEN killed' = FALSE /\ UNCHANGED resources
       ELSE (\E rs \in PluggedIn : resources' = rs) /\ UNCHANGED killed
    /\ op' = Call("device_responds", 0, NoneVal)
    /\ UNCHANGED ret
    /\ UNCHANGED <<state, writes, reads, raised, liveState, absorbed,
                   repeated, nops>>
    /\ UNCHANGED <<hardware_mock, server, threads, file, now, downAt,
                   deadPollAt>>

\* a poll: DG4202Manager.create_dg4202()
CreateDg4202 ==
    /\ LET r == create_dg4202(hardware_mock, killed, resources, file, now) IN
           /\ op' = Call("create_dg4202", 0,
                         read_state(file).last_known_device_uptime)
           /\ ret' = r.ret
           /\ raised' = r.raised
           /\ file' = r.file
           /\ deadPollAt' =
                  IF ~r.raised /\ r.ret = Null THEN Some(now) ELSE deadPollAt
    /\ UNCHANGED <<state, killed, writes, reads, liveState, absorbed,
                   repeated, nops>>
    /\ UNCHANGED <<resources, hardware_mock, server, threads, now, downAt>>

\* get_device_uptime(args_dict)
GetDeviceUptime ==
    /\ op' = Call("get_device_uptime", 0,
                  [start |-> read_state(file).last_known_device_uptime,
                   at |-> now])
    /\ ret' = get_device_uptime(file, now)
    /\ raised' = FALSE
    /\ UNCHANGED <<state, killed, writes, reads, liveState, absorbed,
                   repeated, nops>>
    /\ UNCHANGED frontend

\* The process stops and starts again: init_managers(args_dict) builds a
\* new StateManager and a new DG4202Manager, with a new mock, over the file
\* the process before it left.
InitManagers ==
    /\ op' = Call("init_managers", 0,
                  read_state(file).last_known_device_uptime)
    /\ ret' = NoneVal
    /\ raised' = FALSE
    /\ file' = init_managers
    /\ killed' = FALSE
    /\ state' = StateMachine_init
    /\ liveState' = StateMachine_init
    /\ UNCHANGED <<writes, reads, absorbed, repeated, nops>>
    /\ UNCHANGED <<resources, hardware_mock, server, threads, now, downAt,
                   deadPollAt>>

NextModes ==
    \/ SetMode
    \/ SetSweepMode
    \/ SetBurstMode
    \/ SetModulationMode
    \/ GetMode
    \/ SimulateKill

\* waveform and output operations of the facade
NextWave ==
    \/ SetWaveform
    \/ GetWaveformParameters
    \/ OutputOnOff
    \/ GetOutputStatus
    \/ SimulateKill

\* the command API and the probes
\* a kill request to a server of either file, bound to the mock or to a VISA
\* transport
SimulateKillRoute ==
    \E which \in Servers, isMock \in BOOLEAN, kill \in KillInputs :
        LET r == simulate_kill_route(which, isMock, killed, kill)
        IN  CommitKill(Call("simulate_kill_route", 0,
                            [which |-> which, isMock |-> isMock,
                             kill |-> kill]),
                       r.killed, r.code)

\* a request is served only while the serving thread runs
StopServer ==
    /\ server.serving
    /\ nops < MaxCalls
    /\ \E which \in Servers :
           LET r == stop_server(which, server) IN
               /\ op' = Call("stop_server", 0, which)
               /\ repeated' = SameCall(Call("stop_server", 0, which), op)
               /\ ret' = r.ret
               /\ raised' = r.raised
               /\ server' = r.server
    /\ nops' = nops + 1
    /\ writes' = <<>>
    /\ reads' = <<>>
    /\ UNCHANGED <<state, killed, liveState, absorbed>>
    /\ UNCHANGED <<resources, hardware_mock, threads, file, now, downAt,
                   deadPollAt>>

\* the main thread handles the SIGINT (KeyboardInterrupt, or a handler that
\* ends in sys.exit) and ends; the serving thread is not a daemon and goes on
MainThreadInterrupted ==
    /\ server.main = "signalled"
    /\ server' = [server EXCEPT !.main = "ended"]
    /\ UNCHANGED <<op, ret>>
    /\ UNCHANGED device
    /\ UNCHANGED <<resources, hardware_mock, threads, file, now, downAt,
                   deadPollAt>>

NextStop ==
    \/ StopServer
    \/ MainThreadInterrupted
    \/ ApiSendCommand
    \/ ApiGetState

SpecStop == Init /\ [][NextStop]_vars

\* thread t calls DG4202MockInterface.write(command) and tests the flag
WriteEnter ==
    /\ nops < MaxCalls
    /\ \E t \in Threads, command \in RaceWrites :
           /\ writers[t] = NoneVal
           /\ writers' = [writers EXCEPT
                              ![t] = MockInterface_write_test(killed, command)]
           /\ op' = Call("write_enter", 0, [thread |-> t, command |-> command])
    /\ nops' = nops + 1
    /\ absorbed' = IF killed THEN TRUE ELSE absorbed
    /\ ret' = NoneVal
    /\ raised' = FALSE
    /\ UNCHANGED <<state, killed, writes, reads, liveState, repeated>>
    /\ UNCHANGED <<resources, hardware_mock, server, file, now, downAt,
                   deadPollAt, polls, sched>>

\* thread t, past the test, calls self.dg4202.write(command)
WriteStore ==
    /\ \E t \in Threads :
           /\ writers[t] # NoneVal
           /\ LET r == StateMachine_write(state, writers[t]) IN
                  /\ state' = r.state
                  /\ raised' = r.raised
                  /\ liveState' = IF killed THEN liveState ELSE r.state
           /\ op' = Call("write_store", 0,
                         [thread |-> t, command |-> writers[t]])
           /\ writers' = [writers EXCEPT ![t] = NoneVal]
    /\ ret' = NoneVal
    /\ UNCHANGED <<killed, writes, reads, absorbed, repeated, nops>>
    /\ UNCHANGED <<resources, hardware_mock, server, file, now, downAt,
                   deadPollAt, polls, sched>>

NextRace == WriteEnter \/ WriteStore \/ SimulateKill

SpecRace == Init /\ [][NextRace]_vars

NextKill ==
    \/ SimulateKillRoute
    \/ ApiSendCommand
    \/ ApiGetState
    \/ IsConnectionAlive

SpecKill == Init /\ [][NextKill]_vars

NextApi ==
    \/ ApiSendCommand
    \/ ApiGetState
    \/ ApiSimulateKill
    \/ DeviceApiSimulateKill
    \/ SimulateKill
    \/ CheckStatus
    \/ IsConnectionAlive

Next == NextModes \/ NextWave \/ NextApi

Spec == Init /\ [][Next]_vars

SpecModes == Init /\ [][NextModes]_vars

SpecWave == Init /\ [][NextWave]_vars

SpecApi == Init /\ [][NextApi]_vars

\* get_mode over every combination of the mode flags
NextFlags == WriteFlag \/ GetMode \/ SimulateKill

SpecFlags == Init /\ [][NextFlags]_vars

\* the read operations of the facade, on a live and on a killed mock
NextQueries ==
    \/ WriteValue
    \/ GetMode
    \/ GetOutputStatus
    \/ GetWaveformParameters
    \/ CheckStatus
    \/ IsConnectionAlive
    \/ IsConnectionAliveVisa
    \/ SimulateKill

SpecQueries == Init /\ [][NextQueries]_vars

\* the state machine written and read direct
\* the file is removed, truncated or rewritten from outside the program
FileReplaced ==
    /\ \E f \in FileContents : file' = f
    /\ op' = Call("file_replaced", 0, NoneVal)
    /\ UNCHANGED <<ret, raised>>
    /\ UNCHANGED <<state, killed, writes, reads, liveState, absorbed,
                   repeated, nops>>
    /\ UNCHANGED <<resources, hardware_mock, server, threads, now, downAt,
                   deadPollAt>>

ReadState ==
    /\ op' = Call("read_state", 0, file.kind)
    /\ ret' = read_state(file)
    /\ raised' = FALSE
    /\ UNCHANGED <<state, killed, writes, reads, liveState, absorbed,
                   repeated, nops>>
    /\ UNCHANGED frontend

WriteState ==
    /\ \E start \in {Null} \cup { Some(t) : t \in ClockReadings } :
           file' = write_state([last_known_device_uptime |-> start])
    /\ op' = Call("write_state", 0, NoneVal)
    /\ ret' = NoneVal
    /\ raised' = FALSE
    /\ UNCHANGED <<state, killed, writes, reads, liveState, absorbed,
                   repeated, nops>>
    /\ UNCHANGED <<resources, hardware_mock, server, threads, now, downAt,
                   deadPollAt>>

\* caller p enters create_dg4202: state = self.state_manager.read_state()
PollRead ==
    /\ polls.count < MaxPolls
    /\ \E p \in Pollers :
           /\ polls.calls[p].pc = "idle"
           /\ polls' = [polls EXCEPT
                            !.calls[p] = [pc |-> "read", st |-> read_state(file),
                                          ret |-> Null],
                            !.count = @ + 1]
           /\ op' = Call("poll_read", 0, p)
    /\ UNCHANGED <<ret, raised>>
    /\ UNCHANGED <<state, killed, writes, reads, liveState, absorbed,
                   repeated, nops>>
    /\ UNCHANGED <<resources, hardware_mock, server, file, now, downAt,
                   deadPollAt, writers, sched>>

\* caller p looks for the device and changes its dict; a fault of the
\* detector ends the call without a write
PollProbe ==
    /\ \E p \in Pollers :
           /\ polls.calls[p].pc = "read"
           /\ LET r == create_dg4202_probe(hardware_mock, killed, resources,
                                           polls.calls[p].st, now)
              IN  /\ polls' = [polls EXCEPT
                                   !.calls[p] = IF r.pc = "raised" THEN IdlePoll
                                                ELSE r,
                                   !.last = IF r.pc = "raised" THEN @
                                            ELSE IF r.ret = Null THEN "dead"
                                            ELSE "alive"]
                  /\ raised' = (r.pc = "raised")
           /\ op' = Call("poll_probe", 0, p)
    /\ UNCHANGED ret
    /\ UNCHANGED <<state, killed, writes, reads, liveState, absorbed,
                   repeated, nops>>
    /\ UNCHANGED <<resources, hardware_mock, server, file, now, downAt,
                   deadPollAt, writers, sched>>

\* caller p leaves create_dg4202: self.state_manager.write_state(state) and
\* the return of the device
PollWrite ==
    /\ \E p \in Pollers :
           /\ polls.calls[p].pc = "probed"
           /\ file' = write_state(polls.calls[p].st)
           /\ ret' = polls.calls[p].ret
           /\ deadPollAt' = IF polls.calls[p].ret = Null THEN Some(now)
                            ELSE deadPollAt
           /\ polls' = [polls EXCEPT !.calls[p] = IdlePoll]
           /\ op' = Call("poll_write", 0, p)
    /\ raised' = FALSE
    /\ UNCHANGED <<state, killed, writes, reads, liveState, absorbed,
                   repeated, nops>>
    /\ UNCHANGED <<resources, hardware_mock, server, now, downAt, writers,
                   sched>>

NextPolls ==
    \/ PollRead
    \/ PollProbe
    \/ PollWrite
    \/ DeviceStops
    \/ DeviceResponds

NextFile == FileReplaced \/ ReadState \/ WriteState

SpecFile == Init /\ [][NextFile]_vars

\* every operation of the facade, in runs of at most MaxFrameOps calls
NextChannels ==
    /\ nops < MaxFrameOps
    /\ \/ SetWaveform
       \/ SetMode
       \/ SetSweepMode
       \/ SetBurstMode
       \/ SetModulationMode
       \/ OutputOnOff
       \/ GetMode
       \/ GetOutputStatus
       \/ GetWaveformParameters
       \/ CheckStatus
       \/ IsConnectionAlive

SpecChannels == Init /\ [][NextChannels]_vars

NextStore == StateMachineWrite \/ StateMachineRead

SpecStore == Init /\ [][NextStore]_vars

\* the detector applied to every enumeration
InitDetect ==
    /\ state = StateMachine_init
    /\ killed = FALSE
    /\ op = [name |-> "init", channel |-> 0, arg |-> NoneVal]
    /\ ret = NoneVal
    /\ writes = <<>>
    /\ reads = <<>>
    /\ raised = FALSE
    /\ liveState = StateMachine_init
    /\ absorbed = FALSE
    /\ repeated = FALSE
    /\ nops = 0
    /\ resources \in ResourceLists
    /\ hardware_mock = FALSE
    /\ file = init_managers
    /\ now = FirstReading
    /\ downAt = Null
    /\ deadPollAt = Null
    /\ server = ServerStarted
    /\ writers = NoWriters
    /\ polls = NoPolls
    /\ sched = NoSchedule

NextDetect == DetectDevice

SpecDetect == InitDetect /\ [][NextDetect]_vars

\* the frontend process polling the device, in mock mode or on hardware
InitUptime ==
    /\ state = StateMachine_init
    /\ killed = FALSE
    /\ op = [name |-> "init", channel |-> 0, arg |-> NoneVal]
    /\ ret = NoneVal
    /\ writes = <<>>
    /\ reads = <<>>
    /\ raised = FALSE
    /\ liveState = StateMachine_init
    /\ absorbed = FALSE
    /\ repeated = FALSE
    /\ nops = 0
    /\ hardware_mock \in BOOLEAN
    /\ resources \in (IF hardware_mock THEN { << >> }
                      ELSE PluggedIn \cup Unplugged)
    /\ file = init_managers
    /\ now = FirstReading
    /\ downAt = Null
    /\ deadPollAt = Null
    /\ server = ServerStarted
    /\ writers = NoWriters
    /\ polls = NoPolls
    /\ sched = NoSchedule

NextUptime ==
    \/ Tick
    \/ DeviceStops
    \/ DeviceResponds
    \/ CreateDg4202
    \/ GetDeviceUptime
    \/ InitManagers

SpecUptime == InitUptime /\ [][NextUptime]_vars

\* concurrent polls of the liveness record
SpecPolls == InitUptime /\ [][NextPolls]_vars

\* add_action(time, action, kwargs) of the scheduler
AddAction ==
    /\ sched.added < MaxActions
    /\ \E time \in ScheduleTimes, action \in Functions :
           /\ sched' = add_action(sched, time, action)
           /\ op' = Call("add_action", 0, [time |-> time, action |-> action])
    /\ UNCHANGED <<ret, raised>>
    /\ UNCHANGED <<state, killed, writes, reads, liveState, absorbed,
                   repeated, nops>>
    /\ UNCHANGED <<resources, hardware_mock, server, file, now, downAt,
                   deadPollAt, writers, polls>>

\* one check_timers call of the scheduler loop
CheckTimers ==
    /\ sched.checks < MaxChecks
    /\ sched' = check_timers(sched, now)
    /\ op' = Call("check_timers", 0, now)
    /\ UNCHANGED <<ret, raised>>
    /\ UNCHANGED <<state, killed, writes, reads, liveState, absorbed,
                   repeated, nops>>
    /\ UNCHANGED <<resources, hardware_mock, server, file, now, downAt,
                   deadPollAt, writers, polls>>

\* the application is restarted: a new Scheduler loads the persisted file
SchedulerRestart ==
    /\ ~sched.loaded
    /\ sched.added > 0
    /\ sched' = Scheduler_init(sched)
    /\ op' = Call("scheduler_init", 0, NoneVal)
    /\ UNCHANGED <<ret, raised>>
    /\ UNCHANGED <<state, killed, writes, reads, liveState, absorbed,
                   repeated, nops>>
    /\ UNCHANGED <<resources, hardware_mock, server, file, now, downAt,
                   deadPollAt, writers, polls>>

NextSched == AddAction \/ CheckTimers \/ SchedulerRestart \/ Tick

SpecSched == Init /\ [][NextSched]_vars

-----------------------------------------------------------------------------
\* Properties

ModeFlagKeys(c) ==
    { Source(c) \o ":SWEEp:STATe", Source(c) \o ":BURSt:STATe",
      Source(c) \o ":MOD:STATe" }

\* the flags of channel c that a state query reports as on
ActiveFlags(c) ==
    { k \in ModeFlagKeys(c) : StateMachine_read(state, k \o "?") = "1" }

\* C1: single active mode: in every reachable state, on each channel at most
\* one of the sweep, burst and mod state flags is on.
C1_SingleActiveMode ==
    \A c \in Channels : Cardinality(ActiveFlags(c)) <= 1

\* the mode a get_mode result names; "mod (<type>)" names mod
ModeName(mode) ==
    IF Len(mode) >= 3 /\ SubSeq(mode, 1, 3) = "mod" THEN "mod" ELSE mode

\* C2: mode round trip: after set_mode(c, m) on a live mock, for m one of
\* off, sweep, burst, mod, get_mode(c) names m as the current mode.
C2_ModeRoundTrip ==
    (op.name = "set_mode" /\ ~killed
       /\ op.arg.mode \in {"off", "sweep", "burst", "mod"})
    => ModeName(get_mode(Here, op.channel).ret.mode) = op.arg.mode

\* C3: a kill does not clear or corrupt the state store: while the mock is
\* killed and when the kill is cleared, every key holds the value it held
\* when the mock was last live, and on a live mock a state query returns the
\* stored value and a well-formed write is stored without an error.
C3_KillKeepsState ==
    /\ state = liveState
    /\ (~killed /\ op.name = "get_state" /\ op.arg # NoneVal)
       => ret = [code |-> 200, body |-> StateMachine_read(liveState, op.arg)]
    /\ (~killed /\ op.name = "send_command" /\ op.arg # NoneVal
          /\ Len(Split(op.arg)) = 2)
       => (~raised /\ Split(op.arg)[1] \in DOMAIN state)

\* a changed store went through kill, an absorbed write and the clearing of
\* the kill
C3_Witness ==
    /\ ~killed /\ absorbed
    /\ op.name = "simulate_kill" /\ op.arg = FALSE
    /\ state # StateMachine_init
    /\ state = liveState

\* C4: the liveness probe tracks the kill flag: in every reachable state
\* is_connection_alive() is False when the mock is killed and True when it is
\* not, and every call of it returned that.
C4_AliveIffNotKilled ==
    /\ is_connection_alive(Here).ret = ~killed
    /\ (op.name = "is_connection_alive" => ret = ~killed)

\* the probe was called on a killed mock with a changed store
C4_Witness ==
    /\ killed /\ op.name = "is_connection_alive" /\ ret = FALSE
    /\ state # StateMachine_init

\* C5: after an accepted POST /api/simulate_kill the killed flag is the value
\* requested: True after kill="true", False after kill="false".
C5_KillFollowsRequest ==
    (op.name \in {"api_simulate_kill", "device_api_simulate_kill"}
       /\ ret = 200)
    => killed = (op.arg = "true")

\* C6: toggle coercion: on a live mock the write "k ON" stores "1" under the
\* toggle key k and "k OFF" stores "0", and the state query returns them.
C6_ToggleCoercion ==
    \A k \in ToggleKeys :
        (op.name = "send_command" /\ ~killed)
        => /\ op.arg = k \o " ON"
              => (state[k] = "1" /\ StateMachine_read(state, k \o "?") = "1")
           /\ op.arg = k \o " OFF"
              => (state[k] = "0" /\ StateMachine_read(state, k \o "?") = "0")

FacadeQueryOps ==
    { "check_status", "get_output_status", "get_waveform_parameters",
      "get_mode" }

\* C7: default entries: every query a facade read operation issues resolves
\* to a key that has an entry in the power-on state store.
C7_QueriedKeysHaveDefaults ==
    op.name \in FacadeQueryOps
    => \A i \in 1..Len(reads) : ReadKey(reads[i]) \in DOMAIN StateMachine_init

WaveFields == {"waveform_type", "frequency", "amplitude", "offset"}

WaveKey(c, f) ==
    Source(c) \o (CASE f = "waveform_type" -> ":FUNCtion"
                    [] f = "frequency" -> ":FREQuency:FIXed"
                    [] f = "amplitude" -> ":VOLTage:LEVel:IMMediate:AMPLitude"
                    [] f = "offset" -> ":VOLTage:LEVel:IMMediate:OFFSet")

WaveRecord(st, k, c) == get_waveform_parameters(Ctx(st, k), c).ret

\* C8: partial waveform update: set_waveform(c, ...) issues exactly one write
\* for every field given and none for an absent field, and the record
\* get_waveform_parameters(c) returns afterwards equals the record before in
\* every absent field (and on a live mock holds the value given in the others).
C8_PartialWaveformUpdate ==
    [][ op'.name = "set_waveform" =>
          LET c == op'.channel
              w == op'.arg
              given == { f \in WaveFields : w[f] # NoneVal }
          IN  /\ ~raised'
              /\ Len(writes') = Cardinality(given)
              /\ \A f \in given :
                    \E i \in 1..Len(writes') :
                        writes'[i] = WaveKey(c, f) \o " " \o w[f]
              /\ \A f \in WaveFields \ given :
                    WaveRecord(state', killed', c)[f]
                      = WaveRecord(state, killed, c)[f]
              /\ ~killed' =>
                    \A f \in given : WaveRecord(state', killed', c)[f] = w[f]
      ]_vars

\* only the frequency was given, after the type had been changed
C8_Witness ==
    /\ op.name = "set_waveform" /\ op.channel = 1 /\ ~killed
    /\ op.arg = [waveform_type |-> NoneVal, frequency |-> "500.0",
                 amplitude |-> NoneVal, offset |-> NoneVal]
    /\ writes = <<"SOURce1:FREQuency:FIXed 500.0">>
    /\ WaveRecord(state, killed, 1)
         = [waveform_type |-> "SQUARE", frequency |-> "500.0",
            amplitude |-> "3.3", offset |-> "0.0"]

ToggleCommands ==
    { k \o " ON" : k \in ToggleKeys } \cup { k \o " OFF" : k \in ToggleKeys }

\* command is "k v" with k and v free of whitespace, and no toggle pair
PlainWrite(command) ==
    /\ command # NoneVal
    /\ command \notin ToggleCommands
    /\ Len(Split(command)) = 2
    /\ command = Split(command)[1] \o " " \o Split(command)[2]

\* the keys the commands of ws write
WrittenKeys(ws) ==
    { Split(ws[i])[1] : i \in { j \in 1..Len(ws) : Len(Split(ws[j])) > 0 } }

\* C9 as stated: after the write "k v" to a live mock, for any key k, the
\* queries "k?" and "k" both return v.
C9_WriteQueryRoundTrip ==
    (op.name = "send_command" /\ ~killed /\ PlainWrite(op.arg))
    => LET k == Split(op.arg)[1]
           v == Split(op.arg)[2]
       IN  /\ StateMachine_read(state, k \o "?") = v
           /\ StateMachine_read(state, k) = v

\* C9 amended: after the write "k v" to a live mock, for a key k that does
\* not end in "?", the queries "k?" and "k" both return v; a step that does
\* not write a key leaves its entry as it is; and GET /api/state on a live
\* mock returns what the state store reads.
C9_WriteQueryRoundTripPlainKey ==
    [][ LET toks    == Split(op'.arg)
            written == WrittenKeys(writes')
            kept    == DOMAIN state \ written
        IN  /\ (op'.name = "send_command" /\ ~killed' /\ PlainWrite(op'.arg)
                  /\ ~EndsWithQ(toks[1]))
               => /\ StateMachine_read(state', toks[1] \o "?") = toks[2]
                  /\ StateMachine_read(state', toks[1]) = toks[2]
            /\ \A k \in kept : k \in DOMAIN state' /\ state'[k] = state[k]
            /\ (op'.name = "get_state" /\ ~killed' /\ op'.arg # NoneVal)
               => ret'.body = StateMachine_read(state, op'.arg)
      ]_vars

\* the frequency written over the API was read back over the API
C9_Witness ==
    /\ op.name = "get_state" /\ op.arg = "SOURce1:FREQuency:FIXed"
    /\ ret = [code |-> 200, body |-> "500.0"]

\* C10: output idempotence: on a live mock get_output_status(c) is "ON" after
\* output_on_off(c, True) and "OFF" after output_on_off(c, False), and a call
\* that repeats the call before it leaves the state store as it is.
C10_OutputIdempotent ==
    [][ op'.name = "output_on_off" =>
          /\ ~killed' =>
                get_output_status(Ctx(state', killed'), op'.channel).ret
                  = IF op'.arg THEN "ON" ELSE "OFF"
          /\ repeated' => state' = state
      ]_vars

\* output_on_off(2, True) was called twice in a row on a live mock
C10_Witness ==
    /\ op.name = "output_on_off" /\ op.channel = 2 /\ op.arg = TRUE
    /\ repeated /\ ~killed
    /\ state["OUTPut2"] = "1"

-----------------------------------------------------------------------------
\* The liveness record

\* the persisted last_known_device_uptime
Record == read_state(file).last_known_device_uptime

\* C11: liveness record invariant: after every completed create_dg4202
\* poll, in mock mode and on hardware, the persisted record is non-null if
\* and only if the poll returned a facade; a poll that finds the device
\* absent or killed leaves the record null, and a poll that finds it alive
\* while the record is null sets the record to the time of the poll.
C11_LivenessRecord ==
    [][ (CreateDg4202 /\ ~raised') =>
            /\ (Record' # Null) <=> (ret' # Null)
            /\ (ret' = Null) => (Record' = Null)
            /\ (ret' # Null /\ Record = Null) => (Record' = Some(now')) ]_vars

\* a poll found the device alive after an earlier poll had found it dead,
\* and stamped the record with its own time
C11_Witness ==
    /\ op.name = "create_dg4202"
    /\ ret # Null
    /\ op.arg = Null
    /\ deadPollAt # Null
    /\ now > FirstReading
    /\ Record = Some(now)
\* the seconds get_device_uptime measures: the time since the recorded start
Elapsed == now - Record[1]

C13_UptimeRestarts ==
    (op.name = "create_dg4202" /\ ret # Null /\ downAt # Null)
        => (Record # Null /\ Record[1] >= downAt[1])

\* C13 amended: once a poll has found the device dead, a recorded start is
\* never earlier than that poll: the poll that finds the device alive again
\* records its own time, and the uptime restarts from zero there.
C13_ObservedRestart ==
    (deadPollAt # Null /\ Record # Null) => (Record[1] >= deadPollAt[1])

\* the device stopped after a start was recorded, a poll saw it dead, and a
\* later poll found it alive again and recorded a start after all of these
C13_Witness ==
    /\ op.name = "create_dg4202"
    /\ ret # Null
    /\ downAt # Null
    /\ deadPollAt # Null
    /\ downAt[1] > FirstReading
    /\ deadPollAt[1] >= downAt[1]
    /\ Record # Null
    /\ Record[1] > deadPollAt[1]
\* C14: uptime survives restart: when the process stops with a start
\* recorded and starts again, the record holds the same start after the
\* startup initialisation.
C14_UptimeSurvivesRestart ==
    (op.name = "init_managers" /\ op.arg # Null) => (Record = op.arg)
\* s seconds as H:MM:SS with the hours not bounded
HoursMinutesSeconds(s) ==
    ToString(s \div 3600) \o ":" \o Pad2((s \div 60) % 60) \o ":"
        \o Pad2(s % 60)

\* C15: uptime formatting: get_device_uptime returns "N/A" exactly when the
\* record is null, and otherwise, s whole seconds after the recorded start,
\* the string H:MM:SS with H = s div 3600 (also for s >= 86400),
\* MM = (s div 60) mod 60 and SS = s mod 60.
C15_UptimeFormat ==
    (op.name = "get_device_uptime") =>
        ret = IF op.arg.start = Null THEN "N/A"
              ELSE HoursMinutesSeconds(op.arg.at - op.arg.start[1])
-----------------------------------------------------------------------------
\* The detector

\* x is one of the elements of the sequence seq
InSeq(x, seq) == \E k \in 1..Len(seq) : seq[k] = x

\* the identifier has the network or the local-bus pattern
MatchesPattern(name) == StartsWith(name, "TCPIP") \/ StartsWith(name, "USB")

\* the resource matches the pattern and answers *IDN? with a DG4202 identity
Identifies(r) ==
    /\ MatchesPattern(r.name)
    /\ r.opens
    /\ r.idn # VisaIOError
    /\ Contains(r.idn, "DG4202")

\* the resource identifies itself and the interface can be bound to it
Bindable(r) == Identifies(r) /\ r.binds

\* probing the resource ends in VisaIOError, at the open, the query or the
\* binding
Faulty(r) ==
    /\ MatchesPattern(r.name)
    /\ (~r.opens \/ r.idn = VisaIOError \/ (Identifies(r) /\ ~r.binds))

\* the facade over the interface bound to the resource
FacadeFor(r) ==
    Some([interface |-> Bind(r).interface, resource |-> Bind(r).resource])

\* the i-th resource is the first of the enumeration that identifies itself
FirstIdentifying(i) ==
    /\ i \in 1..Len(resources)
    /\ Identifies(resources[i])
    /\ \A j \in 1..(i - 1) : ~Identifies(resources[j])

\* the i-th resource is the first of the enumeration that can be bound
FirstBindable(i) ==
    /\ i \in 1..Len(resources)
    /\ Bindable(resources[i])
    /\ \A j \in 1..(i - 1) : ~Bindable(resources[j])

\* no resource after the i-th was opened or queried
NoneProbedAfter(i) ==
    \A j \in (i + 1)..Len(resources) :
        /\ ~InSeq(resources[j].name, ret.opened)
        /\ ~InSeq(resources[j].name, ret.queried)

\* C16 as stated: first match wins: detect_device returns the facade bound
\* to the first enumerated resource that matches the TCPIP or USB pattern
\* and answers with an identity containing "DG4202", and no resource after
\* it is opened or queried.
C16_FirstMatchWins ==
    (op.name = "detect_device") =>
        \A i \in 1..Len(resources) :
            FirstIdentifying(i) =>
                (ret.ret = FacadeFor(resources[i]) /\ NoneProbedAfter(i))

\* C16 amended: detect_device returns the facade bound to the first
\* enumerated resource that matches the pattern, answers with an identity
\* containing "DG4202" and can be bound, and no resource after it is opened
\* or queried.
C16_FirstBindableWins ==
    (op.name = "detect_device") =>
        \A i \in 1..Len(resources) :
            FirstBindable(i) =>
                (ret.ret = FacadeFor(resources[i]) /\ NoneProbedAfter(i))

\* the first of three resources is another instrument, the second is a
\* DG4202 and was returned, the third is a DG4202 too and was left alone
C16_Witness ==
    /\ op.name = "detect_device"
    /\ Len(resources) = 3
    /\ MatchesPattern(resources[1].name)
    /\ FirstBindable(2)
    /\ Bindable(resources[3])
    /\ ret.ret = FacadeFor(resources[2])
    /\ InSeq(resources[1].name, ret.queried)

\* C17: fault isolation: a VisaIOError at the open, the query or the binding
\* of a candidate does not leave detect_device; the candidate was tried, the
\* loop went on, and the first bindable DG4202 after it is returned.
C17_FaultIsolation ==
    (op.name = "detect_device") =>
        /\ ~ret.raised
        /\ \A i, j \in 1..Len(resources) :
               (i < j /\ Faulty(resources[i]) /\ FirstBindable(j)) =>
                   /\ InSeq(resources[i].name, ret.opened)
                   /\ ret.ret = FacadeFor(resources[j])

\* the binding of the first DG4202 failed, the open of the next candidate
\* failed, and the DG4202 after them was returned
C17_Witness ==
    /\ op.name = "detect_device"
    /\ Len(resources) = 3
    /\ Identifies(resources[1]) /\ ~resources[1].binds
    /\ MatchesPattern(resources[2].name) /\ ~resources[2].opens
    /\ Bindable(resources[3])
    /\ ~ret.raised
    /\ ret.ret = FacadeFor(resources[3])

\* every resource that matches the pattern was opened, and no other was
AllConsidered ==
    \A i \in 1..Len(resources) :
        MatchesPattern(resources[i].name)
            <=> InSeq(resources[i].name, ret.opened)

\* no resource that matches neither pattern was opened or queried
OthersNeverOpened ==
    \A i \in 1..Len(resources) :
        ~MatchesPattern(resources[i].name) =>
            /\ ~InSeq(resources[i].name, ret.opened)
            /\ ~InSeq(resources[i].name, ret.queried)

\* C18 as stated: absent result: detect_device returns null, without
\* raising, if and only if no enumerated resource matches the pattern and
\* answers with an identity containing "DG4202"; it returns null only after
\* every resource was considered, and resources matching neither pattern
\* are never opened.
C18_AbsentResult ==
    (op.name = "detect_device") =>
        /\ ~ret.raised
        /\ (ret.ret = Null)
               <=> ~(\E i \in 1..Len(resources) : Identifies(resources[i]))
        /\ (ret.ret = Null) => AllConsidered
        /\ OthersNeverOpened

\* C18 amended: detect_device returns null, without raising, if and only if
\* no enumerated resource matches the pattern, answers with an identity
\* containing "DG4202" and can be bound; it returns null only after every
\* resource was considered, and resources matching neither pattern are
\* never opened.
C18_AbsentResultBindable ==
    (op.name = "detect_device") =>
        /\ ~ret.raised
        /\ (ret.ret = Null)
               <=> ~(\E i \in 1..Len(resources) : Bindable(resources[i]))
        /\ (ret.ret = Null) => AllConsidered
        /\ OthersNeverOpened

\* three resources, none a DG4202 that can be bound: one that matches
\* neither pattern and calls itself a DG4202, one whose query fails and one
\* of another model; the result is null
C18_Witness ==
    /\ op.name = "detect_device"
    /\ Len(resources) = 3
    /\ \E i \in 1..3 :
           ~MatchesPattern(resources[i].name)
               /\ Contains(resources[i].idn, "DG4202")
    /\ \E i \in 1..3 :
           MatchesPattern(resources[i].name) /\ resources[i].opens
               /\ resources[i].idn = VisaIOError
    /\ \E i \in 1..3 :
           MatchesPattern(resources[i].name) /\ resources[i].opens
               /\ resources[i].idn = OtherIdn
    /\ ret.ret = Null
    /\ ~ret.raised
-----------------------------------------------------------------------------
\* The state store, written and read direct

\* C19: a malformed write is rejected without corruption: a write whose
\* command does not split into exactly a key and a value (no space
\* separator, no text, more than two parts) raises, and every entry of the
\* state store is the same after the failed call as before it.
C19_MalformedWriteRejected ==
    [][ (nops' = nops + 1 /\ op'.name = "write"
             /\ Len(Split(op'.arg)) # 2)
            => (raised' /\ state' = state) ]_vars

\* a write without a value was rejected after an earlier write had changed
\* the store
C19_Witness ==
    /\ op.name = "write"
    /\ op.arg = "OUTPut1"
    /\ raised
    /\ state # StateMachine_init
    /\ state["OUTPut1"] = "1"

\* C20: query of an unknown key: a read whose key, after stripping one
\* trailing "?", has no entry returns the empty string; no read raises or
\* adds or changes an entry; for a known key the read with and the read
\* without the trailing "?" return the stored value.
C20_ReadUnknownAndKnown ==
    [][ (nops' = nops + 1 /\ op'.name = "read") =>
            /\ ~raised'
            /\ state' = state
            /\ (ReadKey(op'.arg) \notin DOMAIN state) => (ret' = "")
            /\ \A k \in DOMAIN state :
                   (op'.arg = k \/ op'.arg = k \o "?") => (ret' = state[k])
      ]_vars
-----------------------------------------------------------------------------
\* The read operations of the facade

\* the flag of channel c stored under the key suffix k is on
FlagOn(c, k) == state[Source(c) \o k] = "1"

\* C21: get_mode precedence: on a live mock, for every channel and every
\* combination of the three mode flags, get_mode names sweep if the sweep
\* flag is on, else burst if the burst flag is on, else mod if the mod flag
\* is on, else off; with all flags off the parameters are empty.
C21_GetModePrecedence ==
    (op.name = "get_mode" /\ ~killed) =>
        LET c == op.channel IN
        /\ ModeName(ret.mode) =
               IF FlagOn(c, ":SWEEp:STATe") THEN "sweep"
               ELSE IF FlagOn(c, ":BURSt:STATe") THEN "burst"
               ELSE IF FlagOn(c, ":MOD:STATe") THEN "mod"
               ELSE "off"
        /\ (ActiveFlags(c) = {}) => (ret.mode = "off" /\ ret.parameters = <<>>)

\* get_mode on channel 2 with the burst and the mod flag on and the sweep
\* flag off, while all three flags of channel 1 are on
C21_Witness ==
    /\ op.name = "get_mode" /\ op.channel = 2 /\ ~killed
    /\ ~FlagOn(2, ":SWEEp:STATe")
    /\ FlagOn(2, ":BURSt:STATe") /\ FlagOn(2, ":MOD:STATe")
    /\ Cardinality(ActiveFlags(1)) = 3
    /\ ret.mode = "burst"
\* C22: get_output_status truth values: on a live mock, for every channel,
\* get_output_status performs exactly one read, the query of the output of
\* that channel, and returns "ON" when the value read is "1" or "ON" and
\* "OFF" when it is "0" or "OFF".
C22_OutputTruthValues ==
    (op.name = "get_output_status" /\ ~killed) =>
        LET q == "OUTPut" \o Ch(op.channel) \o "?"
            v == StateMachine_read(state, q)
        IN  /\ reads = << q >>
            /\ (v \in {"1", "ON"}) => (ret = "ON")
            /\ (v \in {"0", "OFF"}) => (ret = "OFF")
\* C23: get_waveform_parameters parsing: the operation performs exactly four
\* reads, and when the text read for frequency, amplitude or offset is not
\* numeric (null text included) the call ends in a parse failure instead of
\* returning a record that contains the unparsed text.
C23_WaveformParsing ==
    (op.name = "get_waveform_parameters") =>
        LET S == Source(op.channel)
            IsDigit(ch) == \E d \in 0..9 : ch = ToString(d)
            IsNumeric(s) ==
                /\ s # NoneVal
                /\ \E i \in 1..Len(s) : IsDigit(CharAt(s, i))
                /\ \A i \in 1..Len(s) :
                       \/ IsDigit(CharAt(s, i))
                       \/ CharAt(s, i) = "."
                       \/ i = 1 /\ CharAt(s, i) \in {"+", "-"}
                /\ Cardinality({i \in 1..Len(s) : CharAt(s, i) = "."}) <= 1
            texts == { MockInterface_read(Here, S \o q) :
                           q \in {":FREQuency:FIXed?",
                                  ":VOLTage:LEVel:IMMediate:AMPLitude?",
                                  ":VOLTage:LEVel:IMMediate:OFFSet?"} }
        IN  /\ Len(reads) = 4
            /\ (\E t \in texts : ~IsNumeric(t)) => (raised /\ ret = NoneVal)
\* C24: the liveness probe is total: is_connection_alive issues exactly one
\* read, the waveform-type query of channel 1, never raises, always returns
\* a boolean, and returns False whenever that read ends in a fault or
\* returns None (the killed mock).
C24_ProbeTotal ==
    (op.name = "is_connection_alive") =>
        /\ ~raised
        /\ reads = << "SOURce1:FUNCtion?" >>
        /\ ret \in BOOLEAN
        /\ (op.arg \in ReadFaults) => (ret = FALSE)
        /\ (op.arg = NoneVal /\ killed) => (ret = FALSE)
        /\ (op.arg = NoneVal /\ ~killed) => (ret = TRUE)

\* a probe of a VISA-bound facade whose read raised returned False, made
\* while the mock of the other facade is killed
C24_Witness ==
    /\ op.name = "is_connection_alive" /\ op.arg \in ReadFaults
    /\ ret = FALSE /\ ~raised
    /\ killed
\* C25: disconnected outcome while killed: while the mock is killed, every
\* read operation of the facade returns a disconnected/null outcome that no
\* live device can produce; get_output_status never answers "ON" or "OFF"
\* and get_mode never names a mode, "off" included.
C25_DisconnectedWhileKilled ==
    (killed /\ ~raised) =>
        /\ (op.name = "get_output_status") => (ret \notin {"ON", "OFF"})
        /\ (op.name = "get_mode") =>
               (ModeName(ret.mode) \notin {"off", "sweep", "burst", "mod"})
        /\ (op.name = "check_status") => (ret = NoneVal)
        /\ (op.name = "is_connection_alive" /\ op.arg = NoneVal) =>
               (ret = FALSE)
        /\ (op.name = "get_waveform_parameters") =>
               /\ ret.waveform_type = NoneVal
               /\ ret.frequency = NoneVal
               /\ ret.amplitude = NoneVal
               /\ ret.offset = NoneVal
\* ---------------------------------------------------------------------
\* Reconnection and the kill switch
\* ---------------------------------------------------------------------

\* C26: reconnection treats a killed mock as absent: in hardware-mock mode
\* every create_dg4202 call returns null while the killed flag of the mock
\* is True and returns the mock device while it is False.
C26_KilledMockAbsent ==
    [][(CreateDg4202 /\ hardware_mock) =>
           /\ ~raised'
           /\ ret' = IF killed THEN Null ELSE Some(MockDevice)]_vars

\* a poll returns the mock device again after an earlier poll found it killed
C26_Witness ==
    /\ op.name = "create_dg4202" /\ hardware_mock /\ ~killed
    /\ ret = Some(MockDevice)
    /\ deadPollAt # Null
\* C27: rejected simulate_kill requests change nothing: the request is
\* answered 400 when the bound transport is not the mock, when kill is
\* absent, and when kill is neither "true" nor "false"; every request
\* answered 400 leaves the killed flag and the state store as they were.
C27_RejectedKillUnchanged ==
    [][SimulateKillRoute =>
           LET a == op'.arg
               rejected == \/ ~a.isMock
                           \/ a.kill \notin {"true", "false"}
           IN  /\ rejected => (ret' = 400)
               /\ (ret' = 400) => (killed' = killed /\ state' = state)
               /\ (~rejected) => (ret' = 200)]_vars

\* a request without kill was rejected by a mock-bound server while the
\* mock was killed and its store had been written
C27_Witness ==
    /\ op.name = "simulate_kill_route"
    /\ op.arg.isMock /\ op.arg.kill = NoneVal
    /\ ret = 400
    /\ killed
    /\ state # StateMachine_init
\* ---------------------------------------------------------------------
\* The persisted record
\* ---------------------------------------------------------------------

\* C28: permissive read of persisted state: read_state never raises and
\* always returns a record that has the field last_known_device_uptime; for
\* a file that is missing, zero-length or malformed it returns the default
\* record, whose field is null.
C28_PermissiveRead ==
    (op.name = "read_state") =>
        /\ ~raised
        /\ "last_known_device_uptime" \in DOMAIN ret
        /\ (op.arg \in {"missing", "empty", "malformed"}) =>
               (ret = [last_known_device_uptime |-> Null])
\* ---------------------------------------------------------------------
\* Stopping the API server
\* ---------------------------------------------------------------------

\* C29: API stop ordering: POST /api/stop is answered with 200 and the
\* status "Server shutting down...", the server terminates only after that
\* answer, and after the stop request the server serves no further request.
C29_StopOrdering ==
    [][/\ StopServer =>
              /\ ret'.code = 200
              /\ ret'.body = "Server shutting down..."
       /\ server.stopRequested =>
              ~(nops' = nops + 1 /\ op'.name \in {"send_command", "get_state"})
      ]_vars
\* ---------------------------------------------------------------------
\* Turning the modes off
\* ---------------------------------------------------------------------

\* C30: set_mode off: for every channel c, set_mode(c, "off") on a live mock
\* issues exactly three writes in the order sweep-state OFF, burst-state
\* OFF, mod-state OFF; afterwards the three mode flags of channel c are
\* stored as "0" and get_mode(c) returns off.
C30_SetModeOff ==
    (op.name = "set_mode" /\ ~killed /\ ~raised) =>
        ((op.arg.mode = "off") =>
            LET S == Source(op.channel) IN
                /\ writes = << S \o ":SWEEp:STATe OFF",
                               S \o ":BURSt:STATe OFF",
                               S \o ":MOD:STATe OFF" >>
                /\ state[S \o ":SWEEp:STATe"] = "0"
                /\ state[S \o ":BURSt:STATe"] = "0"
                /\ state[S \o ":MOD:STATe"] = "0"
                /\ get_mode(Here, op.channel).ret.mode = "off")
\* ---------------------------------------------------------------------
\* Frame conditions of the facade
\* ---------------------------------------------------------------------

\* C31: channel independence: every writing operation of the facade called
\* for channel c leaves every entry of the state store that belongs to the
\* other channel as it was (no entry of the other channel is changed, added
\* or lost), and no read operation changes any entry.
C31_ChannelIndependence ==
    [][(nops' = nops + 1) =>
           LET other == 3 - op'.channel
               OfOther(k) == \/ StartsWith(k, "SOURce" \o Ch(other))
                             \/ StartsWith(k, "OUTPut" \o Ch(other))
           IN  /\ (op'.name \in {"set_waveform", "set_mode", "output_on_off",
                                 "set_sweep_mode", "set_burst_mode",
                                 "set_modulation_mode"}) =>
                      \A k \in (DOMAIN state) \cup (DOMAIN state') :
                          OfOther(k) =>
                              /\ k \in DOMAIN state
                              /\ k \in DOMAIN state'
                              /\ state'[k] = state[k]
               /\ (op'.name \in {"get_mode", "get_output_status",
                                 "get_waveform_parameters", "check_status",
                                 "is_connection_alive"}) =>
                      (state' = state)]_vars

\* set_mode(2, "off") ran while the sweep flag of channel 1 was on and left
\* it on
C31_Witness ==
    /\ op.name = "set_mode" /\ op.channel = 2 /\ ~killed /\ ~raised
    /\ op.arg.mode = "off"
    /\ state["SOURce1:SWEEp:STATe"] = "1"
    /\ writes # <<>>
\* C32: mode-parameter setters keep omitted parameters: on a live mock in
\* any reachable state, set_sweep_mode, set_burst_mode and
\* set_modulation_mode called with a dictionary that omits some of the four
\* parameters complete without error, turn the mode flag on, store the
\* supplied parameters and leave the stored value of every omitted
\* parameter unchanged.
C32_SettersKeepOmitted ==
    [][(/\ nops' = nops + 1
        /\ op'.name \in {"set_sweep_mode", "set_burst_mode",
                         "set_modulation_mode"}
        /\ ~killed) =>
           LET S == Source(op'.channel)
               n == op'.name
               flag == IF n = "set_sweep_mode" THEN S \o ":SWEEp:STATe"
                       ELSE IF n = "set_burst_mode" THEN S \o ":BURSt:STATe"
                       ELSE S \o ":MOD:STATe"
               prefix == IF n = "set_sweep_mode" THEN S \o ":SWEEp:"
                         ELSE IF n = "set_burst_mode" THEN S \o ":BURSt:"
                         ELSE S \o ":MOD:AM:"
               names == IF n = "set_sweep_mode" THEN SweepParams
                        ELSE IF n = "set_burst_mode" THEN BurstParams
                        ELSE ModParams
               given == DOMAIN op'.arg
           IN  /\ ~raised'
               /\ state'[flag] = "1"
               /\ \A i \in 1..Len(names) :
                      LET key == prefix \o names[i] IN
                      IF names[i] \in given
                      THEN key \in DOMAIN state'
                           /\ state'[key] = op'.arg[names[i]]
                      ELSE (key \in DOMAIN state) =>
                               (key \in DOMAIN state'
                                /\ state'[key] = state[key])]_vars
\* ---------------------------------------------------------------------
\* Concurrent callers of the mock transport
\* ---------------------------------------------------------------------

\* C33: the kill flag is race-free with respect to writes: once a
\* simulate_kill(True) call has completed, no entry of the state store
\* changes until simulate_kill(False) is called, even for a write that had
\* started before the kill.
C33_KillRaceFree ==
    [][killed => (state' = state)]_vars

\* C34: last-writer-wins: when two callers write through the same mock
\* transport concurrently, each store step of a write leaves exactly the
\* value of that write under its key (toggles coerced to "1" / "0"), so the
\* value stored after both is that of the write applied last; no key is
\* lost and every other key, one written by the other caller included,
\* keeps its value.
C34_LastWriterWins ==
    [][WriteStore =>
           LET command == op'.arg.command
               toks == Split(command)
               value == IF command \in OnCommands THEN "1"
                        ELSE IF command \in OffCommands THEN "0"
                        ELSE toks[2]
           IN  /\ ~raised'
               /\ toks[1] \in DOMAIN state'
               /\ state'[toks[1]] = value
               /\ \A k \in DOMAIN state :
                      /\ k \in DOMAIN state'
                      /\ (k # toks[1]) => (state'[k] = state[k])]_vars

\* the UI thread stored its frequency after the API thread, which had
\* entered first with another frequency and also wrote another key
C34_Witness ==
    /\ op.name = "write_store" /\ op.arg.thread = "ui"
    /\ op.arg.command = "SOURce1:FREQuency:FIXed 700.0"
    /\ state["SOURce1:FREQuency:FIXed"] = "700.0"
    /\ state["SOURce2:FUNCtion"] = "RAMP"
    /\ writers["api"] = "SOURce1:FREQuency:FIXed 500.0"
\* C35: liveness record under concurrent polls: when create_dg4202 is
\* called concurrently by several periodic callers, then after all polls
\* have completed the persisted record is null if the latest poll found the
\* device dead; a poll that read the record before the device died does not
\* write a stale non-null start over the null of a later poll.
C35_ConcurrentPolls ==
    (/\ op.name = "poll_write"
     /\ \A p \in Pollers : polls.calls[p].pc = "idle"
     /\ polls.last = "dead") =>
        (read_state(file).last_known_device_uptime = Null)
\* C36: a check_timers call at the clock reading now executes every pending
\* action whose time is <= now exactly once and removes it from the list, and
\* neither executes nor removes an action whose time is > now; no action is
\* ever executed twice.  Stated over lists whose callables all return
\* normally.
C36_DueExactlyOnce ==
    [][(/\ op'.name = "check_timers"
        /\ sched'.checks = sched.checks + 1
        /\ \A i \in 1..Len(sched.actions) :
               sched.actions[i].action \in Functions \ FailingFunctions)
       => LET TimeOf(a) == CHOOSE t \in ScheduleTimes : datetime_str(t) = a.time
              IsDue(a) == TimeOf(a).s < now
                          \/ (TimeOf(a).s = now /\ TimeOf(a).us = 0)
              Times(log, id) == Cardinality({j \in 1..Len(log) : log[j] = id})
              Pending(id) == \E j \in 1..Len(sched'.actions) :
                                 sched'.actions[j].id = id
          IN  \A i \in 1..Len(sched.actions) :
                  LET a == sched.actions[i]
                  IN  /\ Times(sched'.executed, a.id) <= 1
                      /\ IF IsDue(a)
                         THEN /\ Times(sched'.executed, a.id)
                                     = Times(sched.executed, a.id) + 1
                              /\ ~Pending(a.id)
                         ELSE /\ Times(sched'.executed, a.id)
                                     = Times(sched.executed, a.id)
                              /\ Pending(a.id)]_vars
\* C37: after every add_action and every check_timers the persisted file
\* holds the current action list, and a Scheduler constructed over that file
\* has the same pending actions, each of them still callable.
C37_DurableRoundTrip ==
    [][LET Entries(l) == [i \in 1..Len(l) |->
                             [id |-> l[i].id, time |-> l[i].time,
                              last_execution |-> l[i].last_execution]]
       IN  /\ (sched'.added = sched.added + 1
               \/ sched'.checks = sched.checks + 1)
                  => Entries(sched'.file) = Entries(sched'.actions)
           /\ (sched'.loaded /\ ~sched.loaded)
                  => /\ Entries(sched'.actions) = Entries(sched.file)
                     /\ \A i \in 1..Len(sched'.actions) :
                            sched'.actions[i].action \in Functions]_vars
\* C38: when a due action raises during check_timers, the other actions due
\* in the same check are still executed, the failing action is not executed
\* again by a later check, and the action list is still persisted.  Stated
\* over lists of callables whose times check_timers can parse.
C38_FailingActionIsolated ==
    [][LET Parsed(a) == strptime(a.time)
           WellFormed(a) == a.action \in Functions /\ Parsed(a).ok
           IsDue(a) == Due(now, Parsed(a))
           Times(log, id) == Cardinality({j \in 1..Len(log) : log[j] = id})
       IN  (/\ sched'.checks = sched.checks + 1
            /\ \A i \in 1..Len(sched.actions) : WellFormed(sched.actions[i])
            /\ \E i \in 1..Len(sched.actions) :
                   /\ IsDue(sched.actions[i])
                   /\ sched.actions[i].action \in FailingFunctions)
           => /\ \A i \in 1..Len(sched.actions) :
                     LET a == sched.actions[i]
                     IN  /\ IsDue(a) => Times(sched'.executed, a.id) >= 1
                         /\ a.action \in FailingFunctions
                                => Times(sched'.executed, a.id) <= 1
              /\ sched'.file = Scheduler_write_state(sched'.actions)]_vars
====
